---- MODULE Spec2Model ----
(***************************************************************************)
(* A model of the mokapot class-file decoder: the byte reader, the         *)
(* constant pool resolvers, the attribute parsers, Method::parse and       *)
(* ClassParser::parse.  Parsers are operators over (bytes, position) that  *)
(* return a result record; ClassParser::parse and Method::parse are state  *)
(* machines whose actions are the successive reads of the function body.   *)
(***************************************************************************)
EXTENDS Integers, Sequences, FiniteSets, TLC

VARIABLES
    input,      \* the bytes behind the reader (never modified)
    pos,        \* number of bytes the reader has consumed
    pc,         \* position inside ClassParser::parse / Method::parse
    result,     \* "Running", "Ok" or the ClassFileParsingError returned
    ctx,        \* ParsingContext: the constant pool, <<>> before it is parsed
    class,      \* fields of the Class under construction
    method,     \* fields of the Method under construction
    attributes, \* the AttributeList the current site has parsed
    steps,      \* names of the steps of the parser executed so far, in order
    decoded,    \* the instructions Instruction::parse_code has pushed so far
    analyzer    \* the state of StackFrameAnalyzer: frames, worklist, IR map

vars == <<input, pos, pc, result, ctx, class, method, attributes, steps,
          decoded, analyzer>>

----------------------------------------------------------------------------
(* Results of a parser: Ok carries the value and the new reader position.  *)

Ok(v, p) == [err |-> "Ok", pos |-> p, val |-> v]

Err(e, p) == [err |-> e, pos |-> p, val |-> <<>>]

IsOk(r) == r.err = "Ok"

\* the ? operator: an Err ends the function with that error, an Ok continues
Bind(r, K(_)) == IF IsOk(r) THEN K(r) ELSE r

\* a result of a reader over a sub-slice, placed at p of the enclosing reader
At(r, p) == [r EXCEPT !.pos = p]

None == [some |-> FALSE]

Some(v) == [some |-> TRUE, v |-> v]

----------------------------------------------------------------------------
(* utils: big-endian primitive reads.  A read that runs past the end of    *)
(* the input is an std::io::Error of kind UnexpectedEof; `?` turns it into *)
(* ClassFileParsingError::ReadFail.                                        *)

read_u8(b, p) ==
    IF p + 1 <= Len(b) THEN Ok(b[p + 1], p + 1) ELSE Err("ReadFail", p)

read_u16(b, p) ==
    IF p + 2 <= Len(b) THEN Ok(b[p + 1] * 256 + b[p + 2], p + 2)
    ELSE Err("ReadFail", p)

\* A u32 does not fit the checker's integers: it is the pair of its
\* big-endian 16-bit halves <<high, low>>.
read_u32(b, p) ==
    IF p + 4 <= Len(b)
    THEN Ok(<<b[p + 1] * 256 + b[p + 2], b[p + 3] * 256 + b[p + 4]>>, p + 4)
    ELSE Err("ReadFail", p)

\* read_bytes_vec(reader, len) with len a u32 pair or a number
read_bytes_vec(b, p, n) ==
    IF p + n <= Len(b) THEN Ok(SubSeq(b, p + 1, p + n), p + n)
    ELSE Err("ReadFail", p)

\* `len as usize` of a u32: inputs are shorter than 65536 bytes, so a length
\* with a nonzero high half always runs past the end of the input.
read_bytes_vec32(b, p, len) ==
    IF len[1] # 0 THEN Err("ReadFail", p) ELSE read_bytes_vec(b, p, len[2])

Bit(x, k) == (x \div (2 ^ k)) % 2 = 1

----------------------------------------------------------------------------
(* Constant pool (parsing::constant_pool).  The pool is the 1-indexed      *)
(* sequence of its entries; the slot after a Long or Double holds the      *)
(* phantom entry (tag 0).                                                  *)

Entry(tag, str, idx, idx2) == [tag |-> tag, str |-> str, idx |-> idx, idx2 |-> idx2]

Phantom == Entry(0, <<>>, 0, 0)

\* tags whose payload is one u16 / two u16 / raw bytes
OneIndexTags == {7, 8, 16, 19, 20}

TwoIndexTags == {9, 10, 11, 12, 17, 18}

parse_pool_entry(b, p) ==
    Bind(read_u8(b, p), LAMBDA tag :
    IF tag.val = 1 THEN
        Bind(read_u16(b, tag.pos), LAMBDA len :
        Bind(read_bytes_vec(b, len.pos, len.val), LAMBDA bytes :
        Ok(Entry(1, bytes.val, 0, 0), bytes.pos)))
    ELSE IF tag.val \in {3, 4} THEN
        Bind(read_bytes_vec(b, tag.pos, 4), LAMBDA bytes :
        Ok(Entry(tag.val, bytes.val, 0, 0), bytes.pos))
    ELSE IF tag.val \in {5, 6} THEN
        Bind(read_bytes_vec(b, tag.pos, 8), LAMBDA bytes :
        Ok(Entry(tag.val, bytes.val, 0, 0), bytes.pos))
    ELSE IF tag.val \in OneIndexTags THEN
        Bind(read_u16(b, tag.pos), LAMBDA i :
        Ok(Entry(tag.val, <<>>, i.val, 0), i.pos))
    ELSE IF tag.val \in TwoIndexTags THEN
        Bind(read_u16(b, tag.pos), LAMBDA i :
        Bind(read_u16(b, i.pos), LAMBDA j :
        Ok(Entry(tag.val, <<>>, i.val, j.val), j.pos)))
    ELSE IF tag.val = 15 THEN
        Bind(read_u8(b, tag.pos), LAMBDA k :
        Bind(read_u16(b, k.pos), LAMBDA j :
        Ok(Entry(15, <<>>, k.val, j.val), j.pos)))
    ELSE Err("UnexpectedConstantPoolTag", tag.pos))

RECURSIVE parse_pool_entries(_, _, _, _)
parse_pool_entries(b, p, count, acc) ==
    IF Len(acc) + 1 >= count THEN Ok(acc, p)
    ELSE Bind(parse_pool_entry(b, p), LAMBDA e :
    parse_pool_entries(b, e.pos, count,
                  IF e.val.tag \in {5, 6} THEN acc \o <<e.val, Phantom>>
                  ELSE Append(acc, e.val)))

\* ParsingContext::parse: constant_pool_count, then count - 1 slots
ParsingContext_parse(b, p) ==
    Bind(read_u16(b, p), LAMBDA count :
    parse_pool_entries(b, count.pos, count.val, <<>>))

get_entry(pool, i, p) ==
    IF i \in 1..Len(pool) /\ pool[i].tag # 0 THEN Ok(pool[i], p)
    ELSE Err("BadConstantPoolIndex", p)

get_str(pool, i, p) ==
    Bind(get_entry(pool, i, p), LAMBDA e :
    IF e.val.tag = 1 THEN Ok(e.val.str, p)
    ELSE Err("MismatchedConstantPoolEntryType", p))

get_string(pool, i, p) == get_str(pool, i, p)

\* ClassReference { binary_name }
get_class_ref(pool, i, p) ==
    Bind(get_entry(pool, i, p), LAMBDA e :
    IF e.val.tag # 7 THEN Err("MismatchedConstantPoolEntryType", p)
    ELSE Bind(get_str(pool, e.val.idx, p), LAMBDA name :
    Ok([binary_name |-> name.val], p)))

\* Class entry whose name begins with `[`
get_array_type_ref(pool, i, p) ==
    Bind(get_class_ref(pool, i, p), LAMBDA c :
    IF Len(c.val.binary_name) >= 1 /\ c.val.binary_name[1] = 91 THEN c
    ELSE Err("MalformedClassFile", p))

get_name_and_type(pool, i, p) ==
    Bind(get_entry(pool, i, p), LAMBDA e :
    IF e.val.tag # 12 THEN Err("MismatchedConstantPoolEntryType", p)
    ELSE Bind(get_str(pool, e.val.idx, p), LAMBDA name :
         Bind(get_str(pool, e.val.idx2, p), LAMBDA desc :
         Ok([name |-> name.val, descriptor |-> desc.val], p))))

member_ref(pool, e, variant, p) ==
    Bind(get_class_ref(pool, e.idx, p), LAMBDA c :
    Bind(get_name_and_type(pool, e.idx2, p), LAMBDA nt :
    Ok([variant |-> variant, class |-> c.val, name |-> nt.val.name,
        descriptor |-> nt.val.descriptor], p)))

get_field_ref(pool, i, p) ==
    Bind(get_entry(pool, i, p), LAMBDA e :
    IF e.val.tag # 9 THEN Err("MismatchedConstantPoolEntryType", p)
    ELSE member_ref(pool, e.val, "Field", p))

\* MethodReference::Class for a Methodref, ::Interface for an InterfaceMethodref
get_method_ref(pool, i, p) ==
    Bind(get_entry(pool, i, p), LAMBDA e :
    IF e.val.tag = 10 THEN member_ref(pool, e.val, "Class", p)
    ELSE IF e.val.tag = 11 THEN member_ref(pool, e.val, "Interface", p)
    ELSE Err("MismatchedConstantPoolEntryType", p))

get_method_handle(pool, i, p) ==
    Bind(get_entry(pool, i, p), LAMBDA e :
    IF e.val.tag # 15 THEN Err("MismatchedConstantPoolEntryType", p)
    ELSE Ok([kind |-> e.val.idx, reference |-> e.val.idx2], p))

\* the tags of Integer, Float, Long, Double, Class, String, MethodHandle,
\* MethodType and Dynamic: the entries an ldc-family instruction may load
LoadableTags == {3, 4, 5, 6, 7, 8, 15, 16, 17}

\* ConstantValue of a loadable entry; a Dynamic one is kept symbolically
get_constant_value(pool, i, p) ==
    Bind(get_entry(pool, i, p), LAMBDA e :
    IF e.val.tag \in {3, 4, 5, 6} THEN Ok([tag |-> e.val.tag, value |-> e.val.str], p)
    ELSE IF e.val.tag = 8 THEN
        Bind(get_str(pool, e.val.idx, p), LAMBDA str :
        Ok([tag |-> 8, value |-> str.val], p))
    ELSE IF e.val.tag \in LoadableTags THEN
        Ok([tag |-> e.val.tag, value |-> <<e.val.idx, e.val.idx2>>], p)
    ELSE Err("MismatchedConstantPoolEntryType", p))

----------------------------------------------------------------------------
(* Instruction decoder (parsing/code/instruction_impl.rs).  The reader is  *)
(* a Cursor over the code array, so positions are relative to code start.  *)

read_i8(b, p) ==
    Bind(read_u8(b, p), LAMBDA r :
    Ok(IF r.val >= 128 THEN r.val - 256 ELSE r.val, r.pos))

read_i16(b, p) ==
    Bind(read_u16(b, p), LAMBDA r :
    Ok(IF r.val >= 32768 THEN r.val - 65536 ELSE r.val, r.pos))

read_i32(b, p) ==
    IF p + 4 <= Len(b)
    THEN Ok((IF b[p + 1] >= 128 THEN b[p + 1] - 256 ELSE b[p + 1]) * 16777216
            + b[p + 2] * 65536 + b[p + 3] * 256 + b[p + 4], p + 4)
    ELSE Err("ReadFail", p)

Insn(op, args) == [op |-> op, args |-> args]

NoOperandOps ==
    (0..15) \cup (26..53) \cup (59..131) \cup (133..152) \cup (172..177)
    \cup {190, 191, 194, 195}

U8Ops == {16, 21, 22, 23, 24, 25, 54, 55, 56, 57, 58, 169}

U16Ops == {17, 192, 193}

I16Ops == (153..166) \cup {168, 198, 199}

I32Ops == {200, 201}

FieldOps == {178, 179, 180, 181}

MethodOps == {182, 183, 184}

WideU16Ops == {21, 22, 23, 24, 25, 54, 55, 56, 57, 58, 169}

\* the padding loop testing the position of the opcode, not the cursor's
RECURSIVE skip_padding_FromOpcode(_, _)
skip_padding_FromOpcode(b, p) ==
    IF (p - 1) % 4 = 0 THEN Ok(<<>>, p)
    ELSE Bind(read_u8(b, p), LAMBDA r :
    skip_padding_FromOpcode(b, r.pos))

\* `while reader.position() % 4 != 0 { read_u8(reader)? }`
RECURSIVE skip_padding(_, _)
skip_padding(b, p) ==
    IF p % 4 = 0 THEN Ok(<<>>, p)
    ELSE Bind(read_u8(b, p), LAMBDA r :
    skip_padding(b, r.pos))

RECURSIVE read_i32s(_, _, _, _)
read_i32s(b, p, n, acc) ==
    IF n <= 0 THEN Ok(acc, p)
    ELSE Bind(read_i32(b, p), LAMBDA r :
    read_i32s(b, r.pos, n - 1, Append(acc, r.val)))

\* one of the three pool-resolving families that read a u16 index
resolve_u16(b, p, pool, op) ==
    Bind(read_u16(b, p), LAMBDA index :
    Bind(IF op \in FieldOps THEN get_field_ref(pool, index.val, index.pos)
                  ELSE IF op \in MethodOps THEN get_method_ref(pool, index.val, index.pos)
                  ELSE IF op = 187 THEN get_class_ref(pool, index.val, index.pos)
                  ELSE get_array_type_ref(pool, index.val, index.pos), LAMBDA r :
    Ok(Insn(op, <<r.val>>), r.pos)))

ldc(b, p, pool, op) ==
    Bind(IF op = 18 THEN read_u8(b, p) ELSE read_u16(b, p), LAMBDA index :
    Bind(get_constant_value(pool, index.val, index.pos), LAMBDA c :
    IF (op = 20) = (c.val.tag \in {5, 6}) THEN Ok(Insn(op, <<c.val>>), c.pos)
         ELSE Err("MalformedClassFile", c.pos)))

\* invokedynamic testing only the second of its two reserved bytes
invokedynamic_LowByteOnly(b, p, pool) ==
    Bind(read_u16(b, p), LAMBDA index :
    Bind(get_method_handle(pool, index.val, index.pos), LAMBDA mh :
    Bind(read_u16(b, mh.pos), LAMBDA zeros :
         IF zeros.val % 256 # 0 THEN Err("MalformedClassFile", zeros.pos)
              ELSE Ok(Insn(186, <<mh.val>>), zeros.pos))))

invokedynamic(b, p, pool) ==
    Bind(read_u16(b, p), LAMBDA index :
    Bind(get_method_handle(pool, index.val, index.pos), LAMBDA mh :
    Bind(read_u16(b, mh.pos), LAMBDA zeros :
         IF zeros.val # 0 THEN Err("MalformedClassFile", zeros.pos)
              ELSE Ok(Insn(186, <<mh.val>>), zeros.pos))))

\* invokeinterface taking either variant of MethodReference
invokeinterface_AnyVariant(b, p, pool) ==
    Bind(read_u16(b, p), LAMBDA index :
    Bind(get_method_ref(pool, index.val, index.pos), LAMBDA m :
         Bind(read_u8(b, m.pos), LAMBDA count :
         Bind(read_u8(b, count.pos), LAMBDA zero :
              IF zero.val # 0 THEN Err("MalformedClassFile", zero.pos)
                   ELSE Ok(Insn(185, <<m.val, count.val>>), zero.pos)))))

invokeinterface(b, p, pool) ==
    Bind(read_u16(b, p), LAMBDA index :
    Bind(get_method_ref(pool, index.val, index.pos), LAMBDA m :
    IF m.val.variant # "Interface" THEN Err("MalformedClassFile", m.pos)
         ELSE Bind(read_u8(b, m.pos), LAMBDA count :
         Bind(read_u8(b, count.pos), LAMBDA zero :
              IF zero.val # 0 THEN Err("MalformedClassFile", zero.pos)
                   ELSE Ok(Insn(185, <<m.val, count.val>>), zero.pos)))))

lookupswitch(b, p) ==
    Bind(skip_padding(b, p), LAMBDA pad :
    Bind(read_i32(b, pad.pos), LAMBDA default :
    Bind(read_i32(b, default.pos), LAMBDA npairs :
         IF npairs.val < 0 THEN Err("Panic", npairs.pos)
              ELSE Bind(read_i32s(b, npairs.pos, 2 * npairs.val, <<>>), LAMBDA mo :
              Ok(Insn(171, <<default.val, mo.val>>), mo.pos)))))

\* a - b on i32: overflow, and the difference wrapped to 32 bits
i32_sub(a, b) ==
    IF b < 0 /\ a > 2147483647 + b
    THEN [overflow |-> TRUE, val |-> ((((a - 2147483647) - 1) - b) - 2147483647) - 1]
    ELSE IF b > 0 /\ a < (-2147483647 - 1) + b
    THEN [overflow |-> TRUE, val |-> ((((a + 2147483647) + 1) - b) + 2147483647) + 1]
    ELSE [overflow |-> FALSE, val |-> a - b]

\* `let offset_count = high - low + 1;` on i32: an overflow panics in a build
\* with overflow checks and wraps in a build without them
offset_count(low, high, p) ==
    LET difference == i32_sub(high, low)
        count == i32_sub(difference.val, -1)
    IN  IF (difference.overflow \/ count.overflow) /\ class.overflow_checks
        THEN Err("Panic", p)
        ELSE Ok(count.val, p)

\* tableswitch storing targets: the pc of its opcode added to each offset
tableswitch_AbsoluteTargets(b, p) ==
    Bind(skip_padding(b, p), LAMBDA pad :
    Bind(read_i32(b, pad.pos), LAMBDA default :
    Bind(read_i32(b, default.pos), LAMBDA low :
         Bind(read_i32(b, low.pos), LAMBDA high :
              Bind(offset_count(low.val, high.val, high.pos), LAMBDA count :
              IF count.val < 0 THEN Err("Panic", high.pos)
                   ELSE Bind(read_i32s(b, high.pos, count.val, <<>>), LAMBDA jo :
                   Ok(Insn(170, <<default.val + (p - 1), low.val, high.val,
                                  [i \in 1..Len(jo.val) |-> jo.val[i] + (p - 1)]>>),
                      jo.pos)))))))

tableswitch(b, p) ==
    Bind(skip_padding(b, p), LAMBDA pad :
    Bind(read_i32(b, pad.pos), LAMBDA default :
    Bind(read_i32(b, default.pos), LAMBDA low :
         Bind(read_i32(b, low.pos), LAMBDA high :
              Bind(offset_count(low.val, high.val, high.pos), LAMBDA count :
              IF count.val < 0 THEN Err("Panic", high.pos)
                   ELSE Bind(read_i32s(b, high.pos, count.val, <<>>), LAMBDA jo :
                   Ok(Insn(170, <<default.val, low.val, high.val, jo.val>>), jo.pos)))))))

wide(b, p) ==
    Bind(read_u8(b, p), LAMBDA wide_opcode :
    IF wide_opcode.val \in WideU16Ops THEN
        Bind(read_u16(b, wide_opcode.pos), LAMBDA r :
        Ok(Insn(196, <<wide_opcode.val, r.val>>), r.pos))
    ELSE IF wide_opcode.val = 132 THEN
        Bind(read_u16(b, wide_opcode.pos), LAMBDA r :
        Bind(read_i16(b, r.pos), LAMBDA c :
        Ok(Insn(196, <<132, r.val, c.val>>), c.pos)))
    ELSE Err("UnexpectedOpCode", wide_opcode.pos))

\* Instruction::parse after the opcode byte has been read at position p - 1
Instruction_parse(b, p, pool, opcode) ==
    IF opcode \in NoOperandOps THEN Ok(Insn(opcode, <<>>), p)
    ELSE IF opcode \in U8Ops THEN
        Bind(read_u8(b, p), LAMBDA r :
        Ok(Insn(opcode, <<r.val>>), r.pos))
    ELSE IF opcode \in U16Ops THEN
        Bind(read_u16(b, p), LAMBDA r :
        Ok(Insn(opcode, <<r.val>>), r.pos))
    ELSE IF opcode \in I16Ops THEN
        Bind(read_i16(b, p), LAMBDA r :
        Ok(Insn(opcode, <<r.val>>), r.pos))
    ELSE IF opcode \in I32Ops THEN
        Bind(read_i32(b, p), LAMBDA r :
        Ok(Insn(opcode, <<r.val>>), r.pos))
    ELSE IF opcode = 132 THEN
        Bind(read_u8(b, p), LAMBDA i :
        Bind(read_i8(b, i.pos), LAMBDA c :
        Ok(Insn(132, <<i.val, c.val>>), c.pos)))
    ELSE IF opcode \in FieldOps \cup MethodOps \cup {187, 189} THEN
        resolve_u16(b, p, pool, opcode)
    ELSE IF opcode = 197 THEN
        Bind(resolve_u16(b, p, pool, 197), LAMBDA a :
        Bind(read_u8(b, a.pos), LAMBDA d :
        Ok(Insn(197, a.val.args \o <<d.val>>), d.pos)))
    ELSE IF opcode \in {18, 19, 20} THEN ldc(b, p, pool, opcode)
    ELSE IF opcode = 186 THEN invokedynamic(b, p, pool)
    ELSE IF opcode = 185 THEN invokeinterface(b, p, pool)
    ELSE IF opcode = 171 THEN lookupswitch(b, p)
    ELSE IF opcode = 170 THEN tableswitch(b, p)
    ELSE IF opcode = 188 THEN
        Bind(read_u8(b, p), LAMBDA type_id :
        IF type_id.val \in 4..11 THEN Ok(Insn(188, <<type_id.val>>), type_id.pos)
        ELSE Err("MalformedClassFile", type_id.pos))
    ELSE IF opcode = 196 THEN wide(b, p)
    ELSE Err("UnexpectedOpCode", p)

\* Instruction::parse_code: decode until the opcode read hits the end of the code
RECURSIVE parse_code_loop(_, _, _, _)
parse_code_loop(code, p, pool, instructions) ==
    LET opcode == read_u8(code, p) IN
    IF ~IsOk(opcode) THEN Ok(instructions, p)
    ELSE Bind(Instruction_parse(code, opcode.pos, pool, opcode.val), LAMBDA instruction :
    parse_code_loop(code, instruction.pos, pool,
                              Append(instructions, instruction.val)))

Instruction_parse_code(code, pool) == parse_code_loop(code, 0, pool, <<>>)

\* the loop turn that takes the end of the code at an opcode boundary for a
\* failed read
parse_code_turn_EofIsError(code, p, pool) ==
    Bind(read_u8(code, p), LAMBDA opcode :
    Bind(Instruction_parse(code, opcode.pos, pool, opcode.val), LAMBDA instruction :
         Ok(Some(instruction.val), instruction.pos)))

\* one turn of the loop of Instruction::parse_code with the cursor at p:
\* Ok(None) when the opcode read meets the end of the code
parse_code_turn(code, p, pool) ==
    LET opcode == read_u8(code, p) IN
    IF ~IsOk(opcode) THEN Ok(None, p)
    ELSE Bind(Instruction_parse(code, opcode.pos, pool, opcode.val), LAMBDA instruction :
         Ok(Some(instruction.val), instruction.pos))

----------------------------------------------------------------------------
(* Stack map frames (parsing/code/stack_map.rs)                            *)

\* VerificationTypeInfo::parse: tags 0..6 have no payload, 7 (Object) a class
\* index, 8 (Uninitialized) an offset
VerificationTypeInfo_parse(b, p, pool) ==
    Bind(read_u8(b, p), LAMBDA tag :
    IF tag.val \in 0..6 THEN Ok([tag |-> tag.val], tag.pos)
    ELSE IF tag.val = 7 THEN
        Bind(read_u16(b, tag.pos), LAMBDA i :
        Bind(get_class_ref(pool, i.val, i.pos), LAMBDA c :
        Ok([tag |-> 7, class |-> c.val], c.pos)))
    ELSE IF tag.val = 8 THEN
        Bind(read_u16(b, tag.pos), LAMBDA o :
        Ok([tag |-> 8, offset |-> o.val], o.pos))
    ELSE Err("InvalidVerificationTypeInfoTag", tag.pos))

RECURSIVE parse_verification_types(_, _, _, _, _)
parse_verification_types(b, p, pool, n, acc) ==
    IF n = 0 THEN Ok(acc, p)
    ELSE Bind(VerificationTypeInfo_parse(b, p, pool), LAMBDA v :
    parse_verification_types(b, v.pos, pool, n - 1, Append(acc, v.val)))

StackMapFrame_parse(b, p, pool) ==
    Bind(read_u8(b, p), LAMBDA frame_type :
    LET ft == frame_type.val IN
    IF ft \in 0..63 THEN Ok([frame |-> "SameFrame", offset_delta |-> ft], frame_type.pos)
    ELSE IF ft \in 64..127 THEN
        Bind(VerificationTypeInfo_parse(b, frame_type.pos, pool), LAMBDA v :
        Ok([frame |-> "SameLocals1StackItemFrame", stack |-> v.val], v.pos))
    ELSE IF ft \in 128..246 THEN Err("UnknownStackMapFrameType", frame_type.pos)
    ELSE Bind(read_u16(b, frame_type.pos), LAMBDA offset_delta :
    IF ft = 247 THEN
        Bind(VerificationTypeInfo_parse(b, offset_delta.pos, pool), LAMBDA v :
        Ok([frame |-> "Semantics1StackItemFrameExtended",
                 offset_delta |-> offset_delta.val, stack |-> v.val], v.pos))
    ELSE IF ft \in 248..250 THEN
        Ok([frame |-> "ChopFrame", chop_count |-> 251 - ft,
            offset_delta |-> offset_delta.val], offset_delta.pos)
    ELSE IF ft = 251 THEN
        Ok([frame |-> "SameFrameExtended", offset_delta |-> offset_delta.val],
           offset_delta.pos)
    ELSE IF ft \in 252..254 THEN
        Bind(parse_verification_types(b, offset_delta.pos, pool, ft - 251, <<>>), LAMBDA locals :
        Ok([frame |-> "AppendFrame", offset_delta |-> offset_delta.val,
                 locals |-> locals.val], locals.pos))
    ELSE
        Bind(read_u16(b, offset_delta.pos), LAMBDA locals_count :
        Bind(parse_verification_types(b, locals_count.pos, pool,
                                                    locals_count.val, <<>>), LAMBDA locals :
        Bind(read_u16(b, locals.pos), LAMBDA stacks_count :
        Bind(parse_verification_types(b, stacks_count.pos, pool,
                                                   stacks_count.val, <<>>), LAMBDA stack :
        Ok([frame |-> "FullFrame", offset_delta |-> offset_delta.val,
                 locals |-> locals.val, stack |-> stack.val], stack.pos)))))))

----------------------------------------------------------------------------
(* Attributes.  An attribute is [kind, declared, consumed, v]: its variant, *)
(* the attribute_length it declares (u32 pair), the number of bytes its    *)
(* parser read after the length field, and its payload.                    *)

Attr(kind, declared, consumed, v) ==
    [kind |-> kind, declared |-> declared, consumed |-> consumed, v |-> v]

NameCode == <<67, 111, 100, 101>>

NameExceptions == <<69, 120, 99, 101, 112, 116, 105, 111, 110, 115>>

NameSignature == <<83, 105, 103, 110, 97, 116, 117, 114, 101>>

NameSourceFile == <<83, 111, 117, 114, 99, 101, 70, 105, 108, 101>>

NameStackMapTable == <<83, 116, 97, 99, 107, 77, 97, 112, 84, 97, 98, 108, 101>>

NameLineNumberTable == <<76, 105, 110, 101, 78, 117, 109, 98, 101, 114, 84, 97, 98, 108, 101>>

NameDeprecated == <<68, 101, 112, 114, 101, 99, 97, 116, 101, 100>>

NameSynthetic == <<83, 121, 110, 116, 104, 101, 116, 105, 99>>

RECURSIVE parse_u16_pairs(_, _, _, _)
parse_u16_pairs(b, p, n, acc) ==
    IF n = 0 THEN Ok(acc, p)
    ELSE Bind(read_u16(b, p), LAMBDA x :
    Bind(read_u16(b, x.pos), LAMBDA y :
         parse_u16_pairs(b, y.pos, n - 1, Append(acc, <<x.val, y.val>>))))

\* Attribute::parse_line_no_table: the length is read and dropped
parse_line_no_table(b, p, pool) ==
    Bind(read_u32(b, p), LAMBDA attribute_length :
    Bind(read_u16(b, attribute_length.pos), LAMBDA line_number_table_len :
    Bind(parse_u16_pairs(b, line_number_table_len.pos,
                                  line_number_table_len.val, <<>>), LAMBDA t :
    Ok(Attr("LineNumberTable", attribute_length.val,
                 t.pos - attribute_length.pos, t.val), t.pos))))

RECURSIVE parse_frames(_, _, _, _, _)
parse_frames(b, p, pool, n, acc) ==
    IF n = 0 THEN Ok(acc, p)
    ELSE Bind(StackMapFrame_parse(b, p, pool), LAMBDA f :
    parse_frames(b, f.pos, pool, n - 1, Append(acc, f.val)))

\* Attribute::parse_stack_map_table
parse_stack_map_table(b, p, pool) ==
    Bind(read_u32(b, p), LAMBDA attribute_length :
    Bind(read_u16(b, attribute_length.pos), LAMBDA num_entries :
    Bind(parse_frames(b, num_entries.pos, pool, num_entries.val, <<>>), LAMBDA t :
    Ok(Attr("StackMapTable", attribute_length.val,
                 t.pos - attribute_length.pos, t.val), t.pos))))

RECURSIVE parse_class_refs(_, _, _, _, _)
parse_class_refs(b, p, pool, n, acc) ==
    IF n = 0 THEN Ok(acc, p)
    ELSE Bind(read_u16(b, p), LAMBDA i :
    Bind(get_class_ref(pool, i.val, i.pos), LAMBDA c :
         parse_class_refs(b, c.pos, pool, n - 1, Append(acc, c.val))))

\* Attribute::parse_exceptions
parse_exceptions(b, p, pool) ==
    Bind(read_u32(b, p), LAMBDA attribute_length :
    Bind(read_u16(b, attribute_length.pos), LAMBDA number_of_exceptions :
    Bind(parse_class_refs(b, number_of_exceptions.pos, pool,
                                   number_of_exceptions.val, <<>>), LAMBDA t :
    Ok(Attr("Exceptions", attribute_length.val,
                 t.pos - attribute_length.pos, t.val), t.pos))))

\* ExceptionTableEntry::parse
ExceptionTableEntry_parse(b, p, pool) ==
    Bind(read_u16(b, p), LAMBDA start_pc :
    Bind(read_u16(b, start_pc.pos), LAMBDA end_pc :
    Bind(read_u16(b, end_pc.pos), LAMBDA handler_pc :
    Bind(read_u16(b, handler_pc.pos), LAMBDA catch_type_idx :
    Bind(IF catch_type_idx.val = 0 THEN Ok(None, catch_type_idx.pos)
                 ELSE Bind(get_class_ref(pool, catch_type_idx.val, catch_type_idx.pos), LAMBDA c :
                 Ok(Some(c.val), c.pos)), LAMBDA catch_type :
    Ok([start_pc |-> start_pc.val, end_pc |-> end_pc.val,
             handler_pc |-> handler_pc.val, catch_type |-> catch_type.val],
            catch_type.pos))))))

RECURSIVE parse_exception_table(_, _, _, _, _)
parse_exception_table(b, p, pool, n, acc) ==
    IF n = 0 THEN Ok(acc, p)
    ELSE Bind(ExceptionTableEntry_parse(b, p, pool), LAMBDA e :
    parse_exception_table(b, e.pos, pool, n - 1, Append(acc, e.val)))

----------------------------------------------------------------------------
(* Projection of an attribute list into the named slots of its site        *)

\* fill_once!(slot, value, what): a slot may be filled once only
fill_once(slots, field, v, p) ==
    IF slots[field].some THEN Err("MalformedClassFile", p)
    ELSE Ok([slots EXCEPT ![field] = Some(v)], p)

\* slot = Some(value): a later occurrence replaces an earlier one
assign(slots, field, v, p) == Ok([slots EXCEPT ![field] = Some(v)], p)

set_flag(slots, field, p) == Ok([slots EXCEPT ![field] = TRUE], p)

CodeSlots == [line_number_table |-> None, stack_map_table |-> None]

\* the match of Attribute::parse_code's `for attr in attributes`
CodeSiteArm(slots, attr, p) ==
    IF attr.kind = "LineNumberTable" THEN assign(slots, "line_number_table", attr.v, p)
    ELSE IF attr.kind = "StackMapTable" THEN assign(slots, "stack_map_table", attr.v, p)
    ELSE Err("UnexpectedAttribute", p)

\* MethodSiteArm that lets a later Signature replace an earlier one
MethodSiteArm_SignatureAssigned(slots, attr, p) ==
    IF attr.kind = "Code" THEN fill_once(slots, "body", attr.v, p)
    ELSE IF attr.kind = "Exceptions" THEN fill_once(slots, "exceptions", attr.v, p)
    ELSE IF attr.kind = "Synthetic" THEN set_flag(slots, "is_synthetic", p)
    ELSE IF attr.kind = "Deprecated" THEN set_flag(slots, "is_deprecated", p)
    ELSE IF attr.kind = "Signature" THEN assign(slots, "signature", attr.v, p)
    ELSE Err("UnexpectedAttribute", p)

MethodSlots ==
    [body |-> None, exceptions |-> None, signature |-> None,
     is_synthetic |-> FALSE, is_deprecated |-> FALSE]

\* the match of Method::parse's `for attr in attributes`
MethodSiteArm(slots, attr, p) ==
    IF attr.kind = "Code" THEN fill_once(slots, "body", attr.v, p)
    ELSE IF attr.kind = "Exceptions" THEN fill_once(slots, "exceptions", attr.v, p)
    ELSE IF attr.kind = "Synthetic" THEN set_flag(slots, "is_synthetic", p)
    ELSE IF attr.kind = "Deprecated" THEN set_flag(slots, "is_deprecated", p)
    ELSE IF attr.kind = "Signature" THEN fill_once(slots, "signature", attr.v, p)
    ELSE Err("UnexpectedAttribute", p)

ClassSlots ==
    [source_file |-> None, signature |-> None,
     is_synthetic |-> FALSE, is_deprecated |-> FALSE]

\* the match of ClassParser::parse's `for attr in attributes`
ClassSiteArm(slots, attr, p) ==
    IF attr.kind = "SourceFile" THEN assign(slots, "source_file", attr.v, p)
    ELSE IF attr.kind = "Synthetic" THEN set_flag(slots, "is_synthetic", p)
    ELSE IF attr.kind = "Deprecated" THEN set_flag(slots, "is_deprecated", p)
    ELSE IF attr.kind = "Signature" THEN assign(slots, "signature", attr.v, p)
    ELSE Err("UnexpectedAttribute", p)

SiteArm(site, slots, attr, p) ==
    IF site = "code" THEN CodeSiteArm(slots, attr, p)
    ELSE IF site = "method_info" THEN MethodSiteArm(slots, attr, p)
    ELSE ClassSiteArm(slots, attr, p)

\* `for attr in attributes.into_iter() { match attr { ... } }`
RECURSIVE project(_, _, _, _, _)
project(site, slots, attrs, i, p) ==
    IF i > Len(attrs) THEN Ok(slots, p)
    ELSE Bind(SiteArm(site, slots, attrs[i], p), LAMBDA r :
    project(site, r.val, attrs, i + 1, p))

----------------------------------------------------------------------------
(* Attribute::parse and AttributeList::parse                               *)

RECURSIVE Attribute_parse(_, _, _)
RECURSIVE parse_attributes(_, _, _, _, _)

\* AttributeList::parse: attributes_count, then that many attributes
AttributeList_parse(b, p, pool) ==
    Bind(read_u16(b, p), LAMBDA attributes_count :
    parse_attributes(b, attributes_count.pos, pool, attributes_count.val, <<>>))

parse_attributes(b, p, pool, n, acc) ==
    IF n = 0 THEN Ok(acc, p)
    ELSE Bind(Attribute_parse(b, p, pool), LAMBDA a :
    parse_attributes(b, a.pos, pool, n - 1, Append(acc, a.val)))

\* Attribute::parse_code.  The body keeps the nested attribute list it was
\* projected from (`attributes`) so that properties can speak about it.
parse_code(b, p, pool) ==
    Bind(read_u32(b, p), LAMBDA attribute_length :
    Bind(read_u16(b, attribute_length.pos), LAMBDA max_stack :
    Bind(read_u16(b, max_stack.pos), LAMBDA max_locals :
    Bind(read_u32(b, max_locals.pos), LAMBDA code_length :
    Bind(read_bytes_vec32(b, code_length.pos, code_length.val), LAMBDA code :
    Bind(At(Instruction_parse_code(code.val, pool), code.pos), LAMBDA instructions :
    Bind(read_u16(b, code.pos), LAMBDA exception_table_len :
    Bind(parse_exception_table(b, exception_table_len.pos, pool,
                                                      exception_table_len.val, <<>>), LAMBDA exception_table :
    Bind(AttributeList_parse(b, exception_table.pos, pool), LAMBDA attrs :
    Bind(project("code", CodeSlots, attrs.val, 1, attrs.pos), LAMBDA slots :
    Ok(Attr("Code", attribute_length.val, attrs.pos - attribute_length.pos,
                 [max_stack |-> max_stack.val, max_locals |-> max_locals.val,
                  exception_table |-> exception_table.val,
                  instructions |-> instructions.val,
                  line_number_table |-> slots.val.line_number_table,
                  stack_map_table |-> slots.val.stack_map_table,
                  attributes |-> attrs.val]), attrs.pos)))))))))))

\* the declared length against the bytes a parser consumed
check_length(declared, consumed, attr, p) ==
    IF declared = <<0, consumed>> THEN Ok(attr, p)
    ELSE Err("InvalidAttributeLength", p)

\* SourceFile and Signature: attribute_length, then one Utf8 index
parse_utf8_index(b, p, pool, kind) ==
    Bind(read_u32(b, p), LAMBDA attribute_length :
    Bind(read_u16(b, attribute_length.pos), LAMBDA i :
    Bind(get_string(pool, i.val, i.pos), LAMBDA str :
    check_length(attribute_length.val, 2,
                      Attr(kind, attribute_length.val, 2, str.val), str.pos))))

\* Synthetic and Deprecated: attribute_length and no payload
parse_marker(b, p, kind) ==
    Bind(read_u32(b, p), LAMBDA attribute_length :
    check_length(attribute_length.val, 0,
                      Attr(kind, attribute_length.val, 0, <<>>), attribute_length.pos))

\* any other name: Unknown { name, bytes }
parse_unknown(b, p, name) ==
    Bind(read_u32(b, p), LAMBDA attribute_length :
    Bind(read_bytes_vec32(b, attribute_length.pos, attribute_length.val), LAMBDA bytes :
    Ok(Attr("Unknown", attribute_length.val, Len(bytes.val),
                 [name |-> name, bytes |-> bytes.val]), bytes.pos)))

\* Attribute::parse: attribute_name_index, then dispatch on the resolved name
Attribute_parse(b, p, pool) ==
    Bind(read_u16(b, p), LAMBDA name_idx :
    Bind(get_string(pool, name_idx.val, name_idx.pos), LAMBDA name :
    IF name.val = NameCode THEN parse_code(b, name.pos, pool)
    ELSE IF name.val = NameExceptions THEN parse_exceptions(b, name.pos, pool)
    ELSE IF name.val = NameLineNumberTable THEN parse_line_no_table(b, name.pos, pool)
    ELSE IF name.val = NameStackMapTable THEN parse_stack_map_table(b, name.pos, pool)
    ELSE IF name.val = NameSourceFile THEN parse_utf8_index(b, name.pos, pool, "SourceFile")
    ELSE IF name.val = NameSignature THEN parse_utf8_index(b, name.pos, pool, "Signature")
    ELSE IF name.val = NameSynthetic THEN parse_marker(b, name.pos, "Synthetic")
    ELSE IF name.val = NameDeprecated THEN parse_marker(b, name.pos, "Deprecated")
    ELSE parse_unknown(b, name.pos, name.val)))

----------------------------------------------------------------------------
(* Descriptors and access flags                                            *)

BaseTypeChars == {66, 67, 68, 70, 73, 74, 83, 90}   \* B C D F I J S Z

RECURSIVE semicolon_after(_, _)
semicolon_after(d, i) ==
    IF i > Len(d) THEN 0 ELSE IF d[i] = 59 THEN i + 1 ELSE semicolon_after(d, i + 1)

\* index after the field type that starts at d[i], 0 when there is none
RECURSIVE field_type_end(_, _)
field_type_end(d, i) ==
    IF i > Len(d) THEN 0
    ELSE IF d[i] \in BaseTypeChars THEN i + 1
    ELSE IF d[i] = 91 THEN field_type_end(d, i + 1)
    ELSE IF d[i] = 76 THEN semicolon_after(d, i + 1)
    ELSE 0

RECURSIVE params_end(_, _)
params_end(d, i) ==
    IF i > Len(d) THEN 0
    ELSE IF d[i] = 41 THEN i + 1
    ELSE LET j == field_type_end(d, i) IN IF j = 0 THEN 0 ELSE params_end(d, j)

\* MethodDescriptor::new: ( parameter types ) return type
MethodDescriptor_new(d, p) ==
    LET r == IF Len(d) >= 1 /\ d[1] = 40 THEN params_end(d, 2) ELSE 0 IN
    IF r # 0 /\ ((r = Len(d) /\ d[r] = 86) \/ field_type_end(d, r) = Len(d) + 1)
    THEN Ok(d, p) ELSE Err("InvalidDescriptor", p)

FieldType_new(d, p) ==
    IF field_type_end(d, 1) = Len(d) + 1 THEN Ok(d, p) ELSE Err("InvalidDescriptor", p)

\* bit positions of the flags each bitflags type defines
ClassFlagBits == {0, 4, 5, 9, 10, 12, 13, 14, 15}

FieldFlagBits == {0, 1, 2, 3, 4, 6, 7, 12, 14}

MethodFlagBits == {0, 1, 2, 3, 4, 5, 6, 7, 8, 10, 11, 12}

\* XxxAccessFlags::from_bits: None when a bit outside the defined flags is set
from_bits(bits, defined, p) ==
    IF \A k \in 0..15 : Bit(bits, k) => k \in defined THEN Ok(bits, p)
    ELSE Err("UnknownFlags", p)

IsModule(access_flags) == Bit(access_flags, 15)

IsNative(access_flags) == Bit(access_flags, 8)

IsAbstract(access_flags) == Bit(access_flags, 10)

CLASS_INITIALIZER_NAME == <<60, 99, 108, 105, 110, 105, 116, 62>>

JavaLangObject == <<106, 97, 118, 97, 47, 108, 97, 110, 103, 47, 79, 98, 106, 101, 99, 116>>

----------------------------------------------------------------------------
(* Method::parse (parsing/method_info.rs)                                  *)

\* Method_body_rule with ABSTRACT left out of the condition
Method_body_rule_NativeOnly(access_flags, name, slots, p) ==
    IF IsNative(access_flags) /\ name # CLASS_INITIALIZER_NAME
    THEN IF slots.body.some THEN Err("MalformedClassFile", p) ELSE Ok(slots, p)
    ELSE IF ~slots.body.some THEN Err("MalformedClassFile", p) ELSE Ok(slots, p)

\* Method_body_rule without the exception for <clinit>
Method_body_rule_NoClinitCase(access_flags, name, slots, p) ==
    IF IsNative(access_flags) \/ IsAbstract(access_flags)
    THEN IF slots.body.some THEN Err("MalformedClassFile", p) ELSE Ok(slots, p)
    ELSE IF ~slots.body.some THEN Err("MalformedClassFile", p) ELSE Ok(slots, p)

\* JVMS 4.7.3: a native or abstract method that is not <clinit> has no Code
\* attribute, any other method has one
Method_body_rule(access_flags, name, slots, p) ==
    IF (IsNative(access_flags) \/ IsAbstract(access_flags))
       /\ name # CLASS_INITIALIZER_NAME
    THEN IF slots.body.some THEN Err("MalformedClassFile", p) ELSE Ok(slots, p)
    ELSE IF ~slots.body.some THEN Err("MalformedClassFile", p) ELSE Ok(slots, p)

\* Method::parse up to `let attributes = AttributeList::parse(reader, ctx)?`
Method_read(b, p, pool) ==
    Bind(read_u16(b, p), LAMBDA access :
    Bind(from_bits(access.val, MethodFlagBits, access.pos), LAMBDA access_flags :
    Bind(read_u16(b, access_flags.pos), LAMBDA name_index :
    Bind(get_string(pool, name_index.val, name_index.pos), LAMBDA name :
    Bind(read_u16(b, name.pos), LAMBDA descriptor_index :
    Bind(get_str(pool, descriptor_index.val, descriptor_index.pos), LAMBDA descriptor_str :
    Bind(MethodDescriptor_new(descriptor_str.val, descriptor_str.pos), LAMBDA descriptor :
    Bind(AttributeList_parse(b, descriptor.pos, pool), LAMBDA attrs :
    Ok([access_flags |-> access_flags.val, name |-> name.val,
             descriptor |-> descriptor.val, attributes |-> attrs.val], attrs.pos)))))))))

\* the rest of Method::parse: the projection of the attributes, the body
\* rule, Ok(Method { .. }).  m is the value of Method_read.
Method_assemble(m, p) ==
    Bind(project("method_info", MethodSlots, m.attributes, 1, p), LAMBDA slots :
    Bind(Method_body_rule(m.access_flags, m.name, slots.val, p), LAMBDA checked :
    Ok([access_flags |-> m.access_flags, name |-> m.name,
             descriptor |-> m.descriptor, body |-> slots.val.body,
             excaptions |-> slots.val.exceptions, signature |-> slots.val.signature,
             is_synthetic |-> slots.val.is_synthetic,
             is_deprecated |-> slots.val.is_deprecated], p)))

FieldSlots == [signature |-> None, is_synthetic |-> FALSE, is_deprecated |-> FALSE]

\* Field::parse: access flags, name, descriptor, attributes
Field_parse(b, p, pool) ==
    Bind(read_u16(b, p), LAMBDA access :
    Bind(from_bits(access.val, FieldFlagBits, access.pos), LAMBDA access_flags :
    Bind(read_u16(b, access_flags.pos), LAMBDA name_index :
    Bind(get_string(pool, name_index.val, name_index.pos), LAMBDA name :
    Bind(read_u16(b, name.pos), LAMBDA descriptor_index :
    Bind(get_str(pool, descriptor_index.val, descriptor_index.pos), LAMBDA descriptor_str :
    Bind(FieldType_new(descriptor_str.val, descriptor_str.pos), LAMBDA field_type :
    Bind(AttributeList_parse(b, field_type.pos, pool), LAMBDA attrs :
    IF \E i \in 1..Len(attrs.val) :
                attrs.val[i].kind \notin {"Signature", "Synthetic", "Deprecated"}
         THEN Err("UnexpectedAttribute", attrs.pos)
    ELSE Ok([access_flags |-> access_flags.val, name |-> name.val,
             field_type |-> field_type.val], attrs.pos)))))))))

RECURSIVE parse_fields(_, _, _, _, _)
parse_fields(b, p, pool, n, acc) ==
    IF n = 0 THEN Ok(acc, p)
    ELSE Bind(Field_parse(b, p, pool), LAMBDA f :
    parse_fields(b, f.pos, pool, n - 1, Append(acc, f.val)))

----------------------------------------------------------------------------
(* ClassParser::parse (class_parser.rs)                                    *)

JAVA_CLASS_MAIGC == <<51966, 47806>>   \* 0xCAFEBABE as <<0xCAFE, 0xBABE>>

\* parse_magic comparing the first two bytes only
parse_magic_HighHalfOnly(b, p) ==
    Bind(read_u32(b, p), LAMBDA magic :
    IF magic.val[1] # JAVA_CLASS_MAIGC[1] THEN Err("NotAClassFile", magic.pos)
    ELSE Ok(magic.val, magic.pos))

\* parse_magic reporting a short read as a magic mismatch
parse_magic_ShortIsMismatch(b, p) ==
    LET magic == read_u32(b, p) IN
    IF ~IsOk(magic) \/ magic.val # JAVA_CLASS_MAIGC THEN Err("NotAClassFile", magic.pos)
    ELSE Ok(magic.val, magic.pos)

\* let magic = read_u32(reader)?; if magic != JAVA_CLASS_MAIGC { NotAClassFile }
parse_magic(b, p) ==
    Bind(read_u32(b, p), LAMBDA magic :
    IF magic.val # JAVA_CLASS_MAIGC THEN Err("NotAClassFile", magic.pos)
    ELSE Ok(magic.val, magic.pos))

\* ClassVersion::parse reading major before minor
ClassVersion_parse_MajorFirst(b, p) ==
    Bind(read_u16(b, p), LAMBDA major :
    Bind(read_u16(b, major.pos), LAMBDA minor :
    Ok([major |-> major.val, minor |-> minor.val], minor.pos)))

\* ClassVersion::parse: minor, then major
ClassVersion_parse(b, p) ==
    Bind(read_u16(b, p), LAMBDA minor :
    Bind(read_u16(b, minor.pos), LAMBDA major :
    Ok([major |-> major.val, minor |-> minor.val], major.pos)))

parse_access(b, p) ==
    Bind(read_u16(b, p), LAMBDA access :
    from_bits(access.val, ClassFlagBits, access.pos))

parse_this_class(b, p, pool) ==
    Bind(read_u16(b, p), LAMBDA this_class_idx :
    get_class_ref(pool, this_class_idx.val, this_class_idx.pos))

\* the match on super_class_idx
parse_super_class(b, p, pool, this_class, access_flags) ==
    Bind(read_u16(b, p), LAMBDA super_class_idx :
    IF super_class_idx.val = 0 /\ this_class.binary_name = JavaLangObject
         THEN Ok(None, super_class_idx.pos)
    ELSE IF super_class_idx.val = 0 /\ IsModule(access_flags)
         THEN Ok(None, super_class_idx.pos)
    ELSE IF super_class_idx.val = 0 THEN Err("MalformedClassFile", super_class_idx.pos)
    ELSE Bind(get_class_ref(pool, super_class_idx.val, super_class_idx.pos), LAMBDA c :
    Ok(Some(c.val), c.pos)))

parse_interfaces(b, p, pool) ==
    Bind(read_u16(b, p), LAMBDA interfaces_count :
    parse_class_refs(b, interfaces_count.pos, pool, interfaces_count.val, <<>>))

parse_class_fields(b, p, pool) ==
    Bind(read_u16(b, p), LAMBDA fields_count :
    parse_fields(b, fields_count.pos, pool, fields_count.val, <<>>))

\* check_eof that never looks at the reader
check_eof_Skipped(b, p) == Ok(<<>>, p)

\* reader.read(&mut may_remain): one more byte is UnexpectedData
check_eof(b, p) ==
    IF p < Len(b) THEN Err("UnexpectedData", p + 1) ELSE Ok(<<>>, p)

----------------------------------------------------------------------------
(* Annotations.  The repository holds two parsers of them: the one of       *)
(* jvm/parsing/annotation.rs, whose operators carry the names of the code,  *)
(* and the one of elements/attributes/annotation.rs, whose operators are    *)
(* prefixed with attributes_.                                               *)

\* the tags B C I S Z, and with them D F J
IntegerTags == {66, 67, 73, 83, 90}

PrimitiveTags == IntegerTags \cup {68, 70, 74}

\* the constant-pool tag of the ConstantValue variant that a primitive
\* element tag goes with: Integer, Double for D, Float for F, Long for J
ConstantKind(tag) ==
    IF tag \in IntegerTags THEN 3 ELSE IF tag = 68 THEN 6 ELSE IF tag = 70 THEN 4 ELSE 5

\* ReturnType::from_str: V, or a field type
ReturnType_from_str(d, p) ==
    IF d = <<86>> THEN Ok(d, p) ELSE FieldType_new(d, p)

RECURSIVE ElementValue_parse(_, _, _)
RECURSIVE Annotation_parse(_, _, _)
RECURSIVE parse_element_values(_, _, _, _, _)
RECURSIVE parse_element_value_pairs(_, _, _, _, _)

\* (0..num_values).map(|_| Self::parse(reader, ctx)).collect()
parse_element_values(b, p, pool, n, acc) ==
    IF n = 0 THEN Ok(acc, p)
    ELSE Bind(ElementValue_parse(b, p, pool), LAMBDA v :
    parse_element_values(b, v.pos, pool, n - 1, Append(acc, v.val)))

\* the loop over (element_name, element_value) pairs
parse_element_value_pairs(b, p, pool, n, acc) ==
    IF n = 0 THEN Ok(acc, p)
    ELSE Bind(read_u16(b, p), LAMBDA element_name_idx :
    Bind(get_str(pool, element_name_idx.val, element_name_idx.pos), LAMBDA element_name :
    Bind(ElementValue_parse(b, element_name.pos, pool), LAMBDA element_value :
    parse_element_value_pairs(b, element_value.pos, pool, n - 1,
                              Append(acc, <<element_name.val, element_value.val>>)))))

ElementValue_parse(b, p, pool) ==
    Bind(read_u8(b, p), LAMBDA tag :
    IF tag.val \in PrimitiveTags THEN
        Bind(read_u16(b, tag.pos), LAMBDA const_value_index :
        Bind(get_constant_value(pool, const_value_index.val, const_value_index.pos), LAMBDA c :
        IF c.val.tag = ConstantKind(tag.val)
        THEN Ok([kind |-> "Constant", value |-> c.val], c.pos)
        ELSE Err("MalformedClassFile", c.pos)))
    ELSE IF tag.val = 115 THEN
        Bind(read_u16(b, tag.pos), LAMBDA utf8_idx :
        Bind(get_str(pool, utf8_idx.val, utf8_idx.pos), LAMBDA str :
        Ok([kind |-> "Constant", value |-> [tag |-> 8, value |-> str.val]], str.pos)))
    ELSE IF tag.val = 101 THEN
        Bind(read_u16(b, tag.pos), LAMBDA enum_type_name_idx :
        Bind(get_str(pool, enum_type_name_idx.val, enum_type_name_idx.pos), LAMBDA enum_type :
        Bind(read_u16(b, enum_type.pos), LAMBDA const_name_idx :
        Bind(get_str(pool, const_name_idx.val, const_name_idx.pos), LAMBDA const_name :
        Ok([kind |-> "EnumConstant", enum_type_name |-> enum_type.val,
            const_name |-> const_name.val], const_name.pos)))))
    ELSE IF tag.val = 99 THEN
        Bind(read_u16(b, tag.pos), LAMBDA class_info_idx :
        Bind(get_str(pool, class_info_idx.val, class_info_idx.pos), LAMBDA str :
        Bind(ReturnType_from_str(str.val, str.pos), LAMBDA return_descriptor :
        Ok([kind |-> "Class", return_descriptor |-> return_descriptor.val],
           return_descriptor.pos))))
    ELSE IF tag.val = 64 THEN
        Bind(Annotation_parse(b, tag.pos, pool), LAMBDA a :
        Ok([kind |-> "AnnotationInterface", annotation |-> a.val], a.pos))
    ELSE IF tag.val = 91 THEN
        Bind(read_u16(b, tag.pos), LAMBDA num_values :
        Bind(parse_element_values(b, num_values.pos, pool, num_values.val, <<>>), LAMBDA values :
        Ok([kind |-> "Array", values |-> values.val], values.pos)))
    ELSE Err("InvalidElementValueTag", tag.pos))

Annotation_parse(b, p, pool) ==
    Bind(read_u16(b, p), LAMBDA type_idx :
    Bind(get_str(pool, type_idx.val, type_idx.pos), LAMBDA str :
    Bind(FieldType_new(str.val, str.pos), LAMBDA annotation_type :
    Bind(read_u16(b, annotation_type.pos), LAMBDA num_element_value_pairs :
    Bind(parse_element_value_pairs(b, num_element_value_pairs.pos, pool,
                                   num_element_value_pairs.val, <<>>), LAMBDA pairs :
    Ok([annotation_type |-> annotation_type.val, element_value_pairs |-> pairs.val],
       pairs.pos))))))

RECURSIVE attributes_ElementValue_parse(_, _, _)
RECURSIVE attributes_Annotation_parse(_, _, _)
RECURSIVE attributes_parse_element_values(_, _, _, _, _)
RECURSIVE attributes_parse_element_value_pairs(_, _, _, _, _)

\* for _ in 0..num_values { values.push(Self::parse(reader, constant_pool)?) }
attributes_parse_element_values(b, p, pool, n, acc) ==
    IF n = 0 THEN Ok(acc, p)
    ELSE Bind(attributes_ElementValue_parse(b, p, pool), LAMBDA v :
    attributes_parse_element_values(b, v.pos, pool, n - 1, Append(acc, v.val)))

attributes_parse_element_value_pairs(b, p, pool, n, acc) ==
    IF n = 0 THEN Ok(acc, p)
    ELSE Bind(read_u16(b, p), LAMBDA element_name_idx :
    Bind(get_string(pool, element_name_idx.val, element_name_idx.pos), LAMBDA element_name :
    Bind(attributes_ElementValue_parse(b, element_name.pos, pool), LAMBDA element_value :
    attributes_parse_element_value_pairs(b, element_value.pos, pool, n - 1,
                              Append(acc, <<element_name.val, element_value.val>>)))))

\* the macro read_constant!: the constant at const_value_index, of one kind
read_constant(pool, const_value_index, kind) ==
    Bind(get_constant_value(pool, const_value_index.val, const_value_index.pos), LAMBDA c :
    IF c.val.tag = kind THEN Ok([kind |-> "Constant", value |-> c.val], c.pos)
    ELSE Err("MidmatchedConstantPoolTag", c.pos))

\* the tag, then a u16 whatever the tag is, then the match on the tag
attributes_ElementValue_parse(b, p, pool) ==
    Bind(read_u8(b, p), LAMBDA tag :
    Bind(read_u16(b, tag.pos), LAMBDA const_value_index :
    IF tag.val \in PrimitiveTags THEN
        read_constant(pool, const_value_index, ConstantKind(tag.val))
    ELSE IF tag.val = 115 THEN read_constant(pool, const_value_index, 8)
    ELSE IF tag.val = 101 THEN
        Bind(read_u16(b, const_value_index.pos), LAMBDA enum_type_idx :
        Bind(get_string(pool, enum_type_idx.val, enum_type_idx.pos), LAMBDA type_name :
        Bind(read_u16(b, type_name.pos), LAMBDA const_name_idx :
        Bind(get_string(pool, const_name_idx.val, const_name_idx.pos), LAMBDA const_name :
        Ok([kind |-> "EnumConstant", enum_type_name |-> type_name.val,
            const_name |-> const_name.val], const_name.pos)))))
    ELSE IF tag.val = 99 THEN
        Bind(read_u16(b, const_value_index.pos), LAMBDA class_info_idx :
        Bind(get_string(pool, class_info_idx.val, class_info_idx.pos), LAMBDA return_descriptor :
        Ok([kind |-> "Class", return_descriptor |-> return_descriptor.val],
           return_descriptor.pos)))
    ELSE IF tag.val = 64 THEN
        Bind(attributes_Annotation_parse(b, const_value_index.pos, pool), LAMBDA a :
        Ok([kind |-> "AnnotationInterface", annotation |-> a.val], a.pos))
    ELSE IF tag.val = 91 THEN
        Bind(read_u16(b, const_value_index.pos), LAMBDA num_values :
        Bind(attributes_parse_element_values(b, num_values.pos, pool,
                                             num_values.val, <<>>), LAMBDA values :
        Ok([kind |-> "Array", values |-> values.val], values.pos)))
    ELSE Err("InvalidElementValueTag", const_value_index.pos)))

attributes_Annotation_parse(b, p, pool) ==
    Bind(read_u16(b, p), LAMBDA type_idx :
    Bind(get_string(pool, type_idx.val, type_idx.pos), LAMBDA annotation_type_desc :
    Bind(read_u16(b, annotation_type_desc.pos), LAMBDA num_element_value_pairs :
    Bind(attributes_parse_element_value_pairs(b, num_element_value_pairs.pos, pool,
                                   num_element_value_pairs.val, <<>>), LAMBDA pairs :
    Ok([annotation_type |-> annotation_type_desc.val, element_value_pairs |-> pairs.val],
       pairs.pos)))))

\* both bytes are read, then (0, 0), (1, 0), (2, 0) and (3, idx) are matched
TypePathElement_parse(b, p) ==
    Bind(read_u8(b, p), LAMBDA kind :
    Bind(read_u8(b, kind.pos), LAMBDA argument_index :
    IF (kind.val \in 0..2 /\ argument_index.val = 0) \/ kind.val = 3
    THEN Ok([kind |-> kind.val, argument_index |-> argument_index.val], argument_index.pos)
    ELSE Err("InvalidTypePathKind", argument_index.pos)))

\* the kind is matched as soon as it is read; argument_index is read after
attributes_TypePathElement_parse(b, p) ==
    Bind(read_u8(b, p), LAMBDA kind :
    IF kind.val \notin 0..3 THEN Err("InvalidTypePathKind", kind.pos)
    ELSE Bind(read_u8(b, kind.pos), LAMBDA argument_index :
    Ok([kind |-> kind.val, argument_index |-> argument_index.val], argument_index.pos)))

RECURSIVE parse_target_path(_, _, _, _)
\* (0..path_length).map(|_| TypePathElement::parse(reader)).collect()
parse_target_path(b, p, n, acc) ==
    IF n = 0 THEN Ok(acc, p)
    ELSE Bind(TypePathElement_parse(b, p), LAMBDA e :
    parse_target_path(b, e.pos, n - 1, Append(acc, e.val)))

\* `start_pc.into()..(start_pc + length).into()`: the sum is taken on u16,
\* and a sum above 65535 panics in a build with overflow checks and wraps
\* in a build without them
effective_range(start_pc, length, p) ==
    IF start_pc + length <= 65535 THEN Ok(<<start_pc, start_pc + length>>, p)
    ELSE IF class.overflow_checks THEN Err("Panic", p)
    ELSE Ok(<<start_pc, (start_pc + length) % 65536>>, p)

RECURSIVE parse_localvar_table(_, _, _, _)
\* the loop of the 0x40 | 0x41 arm
parse_localvar_table(b, p, n, acc) ==
    IF n = 0 THEN Ok(acc, p)
    ELSE Bind(read_u16(b, p), LAMBDA start_pc :
    Bind(read_u16(b, start_pc.pos), LAMBDA length :
    Bind(effective_range(start_pc.val, length.val, length.pos), LAMBDA range :
    Bind(read_u16(b, range.pos), LAMBDA index :
    parse_localvar_table(b, index.pos, n - 1,
        Append(acc, [effective_range |-> range.val, index |-> index.val]))))))

\* the match on target_type
target_info(b, p, target_type) ==
    IF target_type \in {0, 1} THEN
        Bind(read_u8(b, p), LAMBDA index :
        Ok([target |-> "TypeParameter", index |-> index.val], index.pos))
    ELSE IF target_type \in {16, 23, 66} THEN
        Bind(read_u16(b, p), LAMBDA index :
        Ok([target |-> IF target_type = 16 THEN "SuperType"
                       ELSE IF target_type = 23 THEN "Throws" ELSE "Catch",
            index |-> index.val], index.pos))
    ELSE IF target_type \in {17, 18} THEN
        Bind(read_u8(b, p), LAMBDA type_parameter_index :
        Bind(read_u8(b, type_parameter_index.pos), LAMBDA bound_index :
        Ok([target |-> "TypeParameterBound",
            type_parameter_index |-> type_parameter_index.val,
            bound_index |-> bound_index.val], bound_index.pos)))
    ELSE IF target_type \in 19..21 THEN Ok([target |-> "Empty"], p)
    ELSE IF target_type = 22 THEN
        Bind(read_u8(b, p), LAMBDA index :
        Ok([target |-> "FormalParameter", index |-> index.val], index.pos))
    ELSE IF target_type \in {64, 65} THEN
        Bind(read_u16(b, p), LAMBDA table_length :
        Bind(parse_localvar_table(b, table_length.pos, table_length.val, <<>>), LAMBDA table :
        Ok([target |-> "LocalVar", table |-> table.val], table.pos)))
    ELSE IF target_type \in 67..70 THEN
        Bind(read_u16(b, p), LAMBDA offset :
        Ok([target |-> "Offset", offset |-> offset.val], offset.pos))
    ELSE IF target_type \in 71..75 THEN
        Bind(read_u16(b, p), LAMBDA offset :
        Bind(read_u8(b, offset.pos), LAMBDA index :
        Ok([target |-> "TypeArgument", offset |-> offset.val, index |-> index.val],
           index.pos)))
    ELSE Err("InvalidTargetType", p)

TypeAnnotation_parse(b, p, pool) ==
    Bind(read_u8(b, p), LAMBDA target_type :
    Bind(target_info(b, target_type.pos, target_type.val), LAMBDA info :
    Bind(read_u8(b, info.pos), LAMBDA path_length :
    Bind(parse_target_path(b, path_length.pos, path_length.val, <<>>), LAMBDA target_path :
    Bind(read_u16(b, target_path.pos), LAMBDA type_index :
    Bind(get_str(pool, type_index.val, type_index.pos), LAMBDA annotation_type_str :
    Bind(FieldType_new(annotation_type_str.val, annotation_type_str.pos), LAMBDA annotation_type :
    Bind(read_u16(b, annotation_type.pos), LAMBDA num_element_value_pairs :
    Bind(parse_element_value_pairs(b, num_element_value_pairs.pos, pool,
                                   num_element_value_pairs.val, <<>>), LAMBDA pairs :
    Ok([target_info |-> info.val, target_path |-> target_path.val,
        annotation_type |-> annotation_type.val, element_value_pairs |-> pairs.val],
       pairs.pos))))))))))

----------------------------------------------------------------------------
(* Stack-frame analyzer (analysis::stack_frame::StackFrameAnalyzer, called  *)
(* by analysis/test.rs).  A value is its identifier; a frame is an operand  *)
(* stack, top last, and the locals; the instructions are those of the       *)
(* decoder, keyed by the pc of their opcode.                                *)

Frame(stack, locals) == [stack |-> stack, locals |-> locals]

\* K applied to the value of x, x being evaluated once
With(x, K(_)) == CHOOSE y \in {K(v) : v \in {x}} : TRUE

Pcs(code) == {code[i].pc : i \in 1..Len(code)}

InsnAt(code, q) == code[CHOOSE i \in 1..Len(code) : code[i].pc = q]

Range(seq) == {seq[i] : i \in 1..Len(seq)}

\* absolute targets of an instruction's branches: the pc of its opcode plus
\* each relative offset the decoder stored (if*, jsr, goto_w, jsr_w, switches)
BranchTargets(d) ==
    IF d.insn.op \in I16Ops \cup I32Ops THEN <<d.pc + d.insn.args[1]>>
    ELSE IF d.insn.op = 170
    THEN <<d.pc + d.insn.args[1]>>
         \o [i \in 1..Len(d.insn.args[4]) |-> d.pc + d.insn.args[4][i]]
    ELSE IF d.insn.op = 171
    THEN <<d.pc + d.insn.args[1]>>
         \o [i \in 1..(Len(d.insn.args[2]) \div 2) |-> d.pc + d.insn.args[2][2 * i]]
    ELSE <<>>

\* iconst_m1 .. iconst_5; iload, iload_0..3; istore, istore_0..3; ifeq .. ifle
ConstOps == 2..8

LoadOps == {21} \cup (26..29)

StoreOps == {54} \cup (59..62)

IfOps == 153..158

\* the opcodes whose stack effect is modelled
AnalyzedOps ==
    {0, 87, 96, 132, 170, 172, 177, 191, 200} \cup ConstOps \cup LoadOps \cup StoreOps \cup IfOps

\* JVMS stack deltas: values popped, and whether a value is defined
Pops(op) ==
    IF op = 96 THEN 2
    ELSE IF op \in StoreOps \cup IfOps \cup {87, 170, 172, 191} THEN 1
    ELSE 0

Defines(op) == op \in ConstOps \cup {96, 132}

FallsThrough(op) == op \notin {170, 172, 177, 191, 200}

\* the local slot an instruction names, -1 when it names none
Slot(insn) ==
    IF insn.op \in {21, 54, 132} THEN insn.args[1]
    ELSE IF insn.op \in 26..29 THEN insn.op - 26
    ELSE IF insn.op \in 59..62 THEN insn.op - 59
    ELSE -1

Popped(d, f) == SubSeq(f.stack, Len(f.stack) - Pops(d.insn.op) + 1, Len(f.stack))

OperationKind(op) ==
    IF op \in ConstOps THEN "const" ELSE IF op \in LoadOps THEN "load"
    ELSE IF op \in StoreOps THEN "store" ELSE IF op \in {96, 132} THEN "arithmetic"
    ELSE IF op \in IfOps \cup {200} THEN "branch" ELSE IF op = 170 THEN "switch"
    ELSE IF op \in {172, 177} THEN "return" ELSE IF op = 191 THEN "throw"
    ELSE "stack"

\* step 2a and 2b: the effect of instruction d on frame f, `fresh` being the
\* identifier the per-method counter would allocate, and the IR record
Analyzer_effect(d, f, fresh) ==
    IF d.insn.op \notin AnalyzedOps THEN [err |-> "Unsupported"]
    ELSE IF Pops(d.insn.op) > Len(f.stack) THEN [err |-> "StackUnderflow"]
    ELSE IF Slot(d.insn) >= Len(f.locals) THEN [err |-> "InvalidLocalSlot"]
    ELSE [err |-> "Ok",
          frame |->
            Frame(SubSeq(f.stack, 1, Len(f.stack) - Pops(d.insn.op))
                  \o (IF d.insn.op \in ConstOps \cup {96} THEN <<fresh>>
                      ELSE IF d.insn.op \in LoadOps THEN <<f.locals[Slot(d.insn) + 1]>>
                      ELSE <<>>),
                  IF d.insn.op \in StoreOps
                  THEN [f.locals EXCEPT ![Slot(d.insn) + 1] = Popped(d, f)[1]]
                  ELSE IF d.insn.op = 132
                  THEN [f.locals EXCEPT ![Slot(d.insn) + 1] = fresh]
                  ELSE f.locals),
          ir |-> [def |-> IF Defines(d.insn.op) THEN fresh ELSE 0,
                  uses |-> Popped(d, f)
                           \o (IF d.insn.op \in LoadOps \cup {132}
                               THEN <<f.locals[Slot(d.insn) + 1]>> ELSE <<>>),
                  kind |-> OperationKind(d.insn.op),
                  targets |-> BranchTargets(d)]]

\* the exception handlers whose [start_pc, end_pc) covers pc q
Covering(m, q) ==
    SelectSeq(m.exception_table, LAMBDA h : h.start_pc <= q /\ q < h.end_pc)

NormalSuccessors(d) ==
    (IF FallsThrough(d.insn.op) THEN <<d.next>> ELSE <<>>) \o BranchTargets(d)

\* the successors without the exception edges
Edges_NoHandlers(m, d, f, out) ==
    [i \in 1..Len(NormalSuccessors(d)) |->
        [to |-> NormalSuccessors(d)[i], frame |-> out, caught |-> FALSE]]

\* step 2c: fallthrough, branch targets and switch arms with the computed
\* frame, then the covering handlers with the stack reset to the caught value
Edges(m, d, f, out) ==
    [i \in 1..Len(NormalSuccessors(d)) |->
        [to |-> NormalSuccessors(d)[i], frame |-> out, caught |-> FALSE]]
    \o [i \in 1..Len(Covering(m, d.pc)) |->
        [to |-> Covering(m, d.pc)[i].handler_pc, frame |-> Frame(<<>>, f.locals),
         caught |-> TRUE]]

FrameIds(f) == Range(f.stack) \cup Range(f.locals)

\* every identifier held by a recorded frame or an IR record
LiveIds(a) ==
    UNION {FrameIds(a.frames[q].v) : q \in {q \in DOMAIN a.frames : a.frames[q].some}}
    \cup UNION {Range(a.ir[q].v.uses) \cup {a.ir[q].v.def} :
                  q \in {q \in DOMAIN a.ir : a.ir[q].some}}

\* the analyzer halts the method and surfaces the error alone
Analyzer_fail(a, err) ==
    [a EXCEPT !.status = err, !.frames = <<>>, !.worklist = <<>>, !.ir = <<>>]

\* slots among the first i on which two slot sequences differ
Differing(xs, ys, i) == Cardinality({j \in 1..i : xs[j] # ys[j]})

\* the join taking the incoming value where the two sides differ
merge_slots_TakesIncoming(xs, ys, base) ==
    [i \in 1..Len(xs) |-> ys[i]]

\* slot by slot: the common identifier, else a fresh Phi from the counter
merge_slots(xs, ys, base) ==
    [i \in 1..Len(xs) |->
        IF xs[i] = ys[i] THEN xs[i] ELSE base + Differing(xs, ys, i) - 1]

merge(rec, inc, base) ==
    Frame(merge_slots(rec.stack, inc.stack, base),
          merge_slots(rec.locals, inc.locals,
                      base + Differing(rec.stack, inc.stack, Len(rec.stack))))

PhiCount(rec, inc) ==
    Differing(rec.stack, inc.stack, Len(rec.stack))
    + Differing(rec.locals, inc.locals, Len(rec.locals))

\* the merge that puts the pc back on the worklist whether or not its frame changed
store_merged_AlwaysEnqueue(a, to, rec, inc, merged, base, from) ==
    [a EXCEPT
        !.frames[to] = Some(merged),
        !.worklist = Append(@, to),
        !.next_id = base + PhiCount(rec, inc),
        !.phis = @ \cup {[id |-> i, at |-> to, from |-> from] :
                            i \in base..(base + PhiCount(rec, inc) - 1)}]

\* store the merged frame, re-enqueue the pc if the recorded frame changed;
\* each fresh Phi records the pc it joins at and the pc it was reached from
store_merged(a, to, rec, inc, merged, base, from) ==
    [a EXCEPT
        !.frames[to] = Some(merged),
        !.worklist = IF merged # rec THEN Append(@, to) ELSE @,
        !.next_id = base + PhiCount(rec, inc),
        !.phis = @ \cup {[id |-> i, at |-> to, from |-> from] :
                            i \in base..(base + PhiCount(rec, inc) - 1)}]

\* the merge, with a note of what it joined, of the identifiers seen until
\* then and of the worklist before and after it
record_merge(a, to, rec, inc, merged, base, from) ==
    [store_merged(a, to, rec, inc, merged, base, from) EXCEPT
        !.merges = Append(@, [pc |-> to, recorded |-> rec, incoming |-> inc,
                              merged |-> merged,
                              seen |-> a.used \cup LiveIds(a) \cup FrameIds(inc),
                              queue_before |-> a.worklist,
                              queue_after |->
                                store_merged(a, to, rec, inc, merged, base, from).worklist])]

\* the merge that lets frames of different heights through, keeping the recorded one
merge_into_NoHeightCheck(a, to, rec, inc, base, from) ==
    IF Len(rec.stack) # Len(inc.stack) THEN a
    ELSE With(merge(rec, inc, base),
              LAMBDA merged : record_merge(a, to, rec, inc, merged, base, from))

\* merge / join at a pc that has a recorded frame
merge_into(a, to, rec, inc, base, from) ==
    IF Len(rec.stack) # Len(inc.stack) THEN Analyzer_fail(a, "InconsistentStackHeight")
    ELSE With(merge(rec, inc, base),
              LAMBDA merged : record_merge(a, to, rec, inc, merged, base, from))

\* step 2d for one successor, `arrived` noting the height of each frame that
\* reaches a pc; a handler entry allocates the caught reference first
flow_into(a, to, inc, base, from) ==
    IF ~a.frames[to].some
    THEN [a EXCEPT !.frames[to] = Some(inc), !.worklist = Append(@, to),
                   !.next_id = base]
    ELSE With(a.frames[to].v, LAMBDA rec : merge_into(a, to, rec, inc, base, from))

flow_one(a, e, from) ==
    With([a EXCEPT !.arrived[e.to] = @ \cup {IF e.caught THEN 1 ELSE Len(e.frame.stack)}],
         LAMBDA b :
         With(IF e.caught THEN Frame(<<a.next_id>>, e.frame.locals) ELSE e.frame,
              LAMBDA inc :
              flow_into(b, e.to, inc, IF e.caught THEN a.next_id + 1 ELSE a.next_id, from)))

RECURSIVE flow(_, _, _)
flow(a, edges, from) ==
    IF edges = <<>> \/ a.status # "Running" THEN a
    ELSE With(Head(edges), LAMBDA e :
         With(flow_one(a, e, from), LAMBDA b : flow(b, Tail(edges), from)))

\* the dequeued pc's instruction d, its frame f and its effect e
Analyzer_apply(a, code, m, d, f, e) ==
    IF e.err # "Ok" THEN Analyzer_fail(a, e.err)
    ELSE IF \E t \in Range(BranchTargets(d)) : t \notin Pcs(code)
    THEN Analyzer_fail(a, "InvalidJumpTarget")
    ELSE With([a EXCEPT !.worklist = Tail(@),
                        !.ir[d.pc] = Some(e.ir),
                        !.next_id = IF e.ir.def # 0 THEN @ + 1 ELSE @,
                        !.merges = <<>>,
                        !.used = @ \cup LiveIds(a)],
              LAMBDA b :
              With(Edges(m, d, f, e.frame), LAMBDA edges : flow(b, edges, d.pc)))

\* step 2: one turn of the worklist loop
Analyzer_step(a, code, m) ==
    With(InsnAt(code, Head(a.worklist)), LAMBDA d :
    With(a.frames[Head(a.worklist)].v, LAMBDA f :
    With(Analyzer_effect(d, f, a.next_id), LAMBDA e :
         Analyzer_apply(a, code, m, d, f, e))))

\* step 1: the frame at pc 0 holds one value per parameter slot, empty stack
Analyzer_seed(code, m) ==
    [status |-> "Running",
     frames |-> [q \in Pcs(code) |->
                    IF q = 0 THEN Some(Frame(<<>>, [i \in 1..m.max_locals |-> i]))
                    ELSE None],
     worklist |-> <<0>>,
     ir |-> [q \in Pcs(code) |-> None],
     next_id |-> m.max_locals + 1,
     phis |-> {},
     merges |-> <<>>,
     used |-> 1..m.max_locals,
     arrived |-> [q \in Pcs(code) |-> IF q = 0 THEN {0} ELSE {}]]

\* identifiers are compared for equality only: the same analyzer state with
\* its live identifiers renumbered 1, 2, .. in their order of allocation
Rank(S, id) == Cardinality({u \in S : u <= id})

RenameFrame(f, S) ==
    Frame([i \in 1..Len(f.stack) |-> Rank(S, f.stack[i])],
          [i \in 1..Len(f.locals) |-> Rank(S, f.locals[i])])

Renamed(a, S) ==
    [a EXCEPT
        !.frames = [q \in DOMAIN @ |->
                      IF @[q].some THEN Some(RenameFrame(@[q].v, S)) ELSE None],
        !.ir = [q \in DOMAIN @ |->
                  IF @[q].some
                  THEN Some([@[q].v EXCEPT
                               !.def = Rank(S, @),
                               !.uses = [i \in 1..Len(@) |-> Rank(S, @[i])]])
                  ELSE None],
        !.next_id = Cardinality(S) + 1,
        !.phis = {[id |-> Rank(S, p.id), at |-> p.at, from |-> p.from] :
                     p \in {p \in @ : p.id \in S}},
        !.merges = <<>>,
        !.used = {}]

UpToRenaming(a) ==
    IF a.status = "Running" THEN With(LiveIds(a) \ {0}, LAMBDA S : Renamed(a, S)) ELSE a

----------------------------------------------------------------------------
(* The parsers, the decoder and the analyzer as state machines             *)

\* StackFrameAnalyzer before moka_ir is called
AnalyzerIdle == [status |-> "Idle"]

ClassInit(entry) ==
    [entry |-> entry, version |-> None, access_flags |-> 0, this_class |-> None,
     super_class |-> None, interfaces |-> <<>>, fields |-> <<>>, methods |-> <<>>,
     methods_count |-> 0, slots |-> ClassSlots, overflow_checks |-> FALSE]

\* a step of the parser: `?` returns the error, otherwise go on to `next`
Step(r, name, next) ==
    /\ pos' = r.pos
    /\ steps' = Append(steps, name)
    /\ IF IsOk(r) THEN pc' = next /\ result' = result
       ELSE pc' = "done" /\ result' = r.err

ReadMagic ==
    /\ pc = "magic"
    /\ Step(parse_magic(input, pos), "magic", "version")
    /\ UNCHANGED <<input, ctx, class, method, attributes, decoded, analyzer>>

\* what ReadVersion does with the result r of its call
ReadVersion_with(r) ==
    /\ Step(r, "version", "constant_pool")
    /\ class' = IF IsOk(r) THEN [class EXCEPT !.version = Some(r.val)] ELSE class

ReadVersion ==
    /\ pc = "version"
    /\ LET r == ClassVersion_parse(input, pos) IN ReadVersion_with(r)
    /\ UNCHANGED <<input, ctx, method, attributes, decoded, analyzer>>

\* what ReadConstantPool does with the result r of its call
ReadConstantPool_with(r) ==
    /\ Step(r, "constant_pool", "access_flags")
    /\ ctx' = IF IsOk(r) THEN r.val ELSE ctx

ReadConstantPool ==
    /\ pc = "constant_pool"
    /\ LET r == ParsingContext_parse(input, pos) IN ReadConstantPool_with(r)
    /\ UNCHANGED <<input, class, method, attributes, decoded, analyzer>>

\* what ReadAccessFlags does with the result r of its call
ReadAccessFlags_with(r) ==
    /\ Step(r, "access_flags", "this_class")
    /\ class' = IF IsOk(r) THEN [class EXCEPT !.access_flags = r.val] ELSE class

ReadAccessFlags ==
    /\ pc = "access_flags"
    /\ LET r == parse_access(input, pos) IN ReadAccessFlags_with(r)
    /\ UNCHANGED <<input, ctx, method, attributes, decoded, analyzer>>

\* what ReadThisClass does with the result r of its call
ReadThisClass_with(r) ==
    /\ Step(r, "this_class", "super_class")
    /\ class' = IF IsOk(r) THEN [class EXCEPT !.this_class = Some(r.val)] ELSE class

ReadThisClass ==
    /\ pc = "this_class"
    /\ LET r == parse_this_class(input, pos, ctx) IN ReadThisClass_with(r)
    /\ UNCHANGED <<input, ctx, method, attributes, decoded, analyzer>>

\* what ReadSuperClass does with the result r of its call
ReadSuperClass_with(r) ==
    /\ Step(r, "super_class", "interfaces")
    /\ class' = IF IsOk(r) THEN [class EXCEPT !.super_class = r.val] ELSE class

ReadSuperClass ==
    /\ pc = "super_class"
    /\ LET r == parse_super_class(input, pos, ctx, class.this_class.v, class.access_flags) IN ReadSuperClass_with(r)
    /\ UNCHANGED <<input, ctx, method, attributes, decoded, analyzer>>

\* what ReadInterfaces does with the result r of its call
ReadInterfaces_with(r) ==
    /\ Step(r, "interfaces", "fields")
    /\ class' = IF IsOk(r) THEN [class EXCEPT !.interfaces = r.val] ELSE class

ReadInterfaces ==
    /\ pc = "interfaces"
    /\ LET r == parse_interfaces(input, pos, ctx) IN ReadInterfaces_with(r)
    /\ UNCHANGED <<input, ctx, method, attributes, decoded, analyzer>>

\* what ReadFields does with the result r of its call
ReadFields_with(r) ==
    /\ Step(r, "fields", "methods_count")
    /\ class' = IF IsOk(r) THEN [class EXCEPT !.fields = r.val] ELSE class

ReadFields ==
    /\ pc = "fields"
    /\ LET r == parse_class_fields(input, pos, ctx) IN ReadFields_with(r)
    /\ UNCHANGED <<input, ctx, method, attributes, decoded, analyzer>>

\* what ReadMethodsCount does with the result r of its call
ReadMethodsCount_with(r) ==
    /\ Step(r, "methods_count", IF IsOk(r) /\ r.val > 0 THEN "method" ELSE "attributes")
    /\ class' = IF IsOk(r) THEN [class EXCEPT !.methods_count = r.val] ELSE class

ReadMethodsCount ==
    /\ pc = "methods_count"
    /\ LET r == read_u16(input, pos) IN ReadMethodsCount_with(r)
    /\ UNCHANGED <<input, ctx, method, attributes, decoded, analyzer>>

\* what ReadMethod does with the result r of its call
ReadMethod_with(r) ==
    /\ Step(r, "method", "method_assemble")
    /\ method' = IF IsOk(r) THEN Some(r.val) ELSE None
    /\ attributes' = IF IsOk(r) THEN r.val.attributes ELSE attributes

\* Method::parse, first half; ClassParser::parse calls it methods_count
\* times.  `attributes` holds the method's attribute list meanwhile.
ReadMethod ==
    /\ pc = "method"
    /\ LET r == Method_read(input, pos, ctx) IN ReadMethod_with(r)
    /\ UNCHANGED <<input, ctx, class, decoded, analyzer>>

\* what AssembleMethod does with the result r of its call
AssembleMethod_with(r) ==
    /\ steps' = Append(steps, "method_assemble")
    /\ IF ~IsOk(r)
       THEN pc' = "done" /\ result' = r.err /\ UNCHANGED <<class, method>>
       ELSE /\ method' = Some(r.val)
            /\ class' = [class EXCEPT !.methods = Append(@, r.val)]
            /\ IF class.entry = "Method::parse"
               THEN pc' = "done" /\ result' = "Ok"
               ELSE /\ result' = result
                    /\ pc' = IF Len(class.methods) + 1 < class.methods_count
                             THEN "method" ELSE "attributes"

\* Method::parse, second half: it reads nothing
AssembleMethod ==
    /\ pc = "method_assemble"
    /\ LET r == Method_assemble(method.v, pos) IN AssembleMethod_with(r)
    /\ UNCHANGED <<input, pos, ctx, attributes, decoded, analyzer>>

\* what ReadAttributes does with the result r of its call
ReadAttributes_with(r) ==
    /\ Step(r, "attributes", "eof")
    /\ attributes' = IF IsOk(r) THEN r.val ELSE attributes

ReadAttributes ==
    /\ pc = "attributes"
    /\ LET r == AttributeList_parse(input, pos, ctx) IN ReadAttributes_with(r)
    /\ UNCHANGED <<input, ctx, class, method, decoded, analyzer>>

CheckEof ==
    /\ pc = "eof"
    /\ Step(check_eof(input, pos), "eof", "project")
    /\ UNCHANGED <<input, ctx, class, method, attributes, decoded, analyzer>>

\* what ProjectAttributes does with the result r of its call
ProjectAttributes_with(r) ==
    /\ pc' = "done"
    /\ result' = r.err
    /\ class' = IF IsOk(r) THEN [class EXCEPT !.slots = r.val] ELSE class

\* the projection of the class attributes, then Ok(Class { .. })
ProjectAttributes ==
    /\ pc = "project"
    /\ LET r == project("class_file", ClassSlots, attributes, 1, pos) IN ProjectAttributes_with(r)
    /\ steps' = Append(steps, "project")
    /\ UNCHANGED <<input, pos, ctx, method, attributes, decoded, analyzer>>

\* what ParseInstruction does with the result r of its turn: push the
\* instruction (kept here with the cursor positions before and after it),
\* or leave the loop with Ok(instructions), or return the error
ParseInstruction_with(r) ==
    /\ pos' = r.pos
    /\ IF ~IsOk(r) THEN pc' = "done" /\ result' = r.err /\ decoded' = decoded
       ELSE IF r.val.some
       THEN /\ pc' = pc
            /\ result' = result
            /\ decoded' = Append(decoded, [pc |-> pos, insn |-> r.val.v, next |-> r.pos])
       ELSE /\ pc' = IF class.entry = "Instruction::parse_code" THEN "done" ELSE "moka_ir"
            /\ result' = IF class.entry = "Instruction::parse_code" THEN "Ok" ELSE result
            /\ decoded' = decoded

\* one turn of the loop of Instruction::parse_code over the code array `input`
ParseInstruction ==
    /\ pc = "parse_code"
    /\ \E r \in {parse_code_turn(input, pos, ctx)} : ParseInstruction_with(r)
    /\ steps' = Append(steps, "instruction")
    /\ UNCHANGED <<input, ctx, class, method, attributes, analyzer>>

MaxIds == 12           \* identifiers the per-method counter is followed up to

\* moka_ir(&method): the seeded frame at pc 0 goes on the worklist
SeedAnalyzer ==
    /\ pc = "moka_ir"
    /\ analyzer' = Analyzer_seed(decoded, method)
    /\ pc' = "worklist"
    /\ UNCHANGED <<input, pos, result, ctx, class, method, attributes, steps, decoded>>

\* what a turn of the worklist loop leaves: the next analyzer state, or the error returned
ProcessFrame_with(a) ==
    /\ analyzer' = a
    /\ IF a.status = "Running" THEN pc' = pc /\ result' = result
       ELSE pc' = "done" /\ result' = a.status

\* one turn of the worklist loop; identifiers come from the per-method
\* counter, which the model follows up to MaxIds
ProcessFrame ==
    /\ pc = "worklist"
    /\ class.entry = "StackFrameAnalyzer::moka_ir"
    /\ analyzer.worklist # <<>>
    /\ analyzer.next_id <= MaxIds
    /\ \E a \in {Analyzer_step(analyzer, decoded, method)} : ProcessFrame_with(a)
    /\ UNCHANGED <<input, pos, ctx, class, method, attributes, steps, decoded>>

\* one turn of the worklist loop, the state kept up to renaming of identifiers
ProcessFrameRenamed ==
    /\ pc = "worklist"
    /\ class.entry = "StackFrameAnalyzer::moka_ir (fixpoint)"
    /\ analyzer.worklist # <<>>
    /\ \E a \in {Analyzer_step(analyzer, decoded, method)} :
           \E r \in {UpToRenaming(a)} : ProcessFrame_with(r)
    /\ UNCHANGED <<input, pos, ctx, class, method, attributes, steps, decoded>>

\* step 3: the worklist is empty, the IR map is returned
FinishAnalysis ==
    /\ pc = "worklist"
    /\ analyzer.worklist = <<>>
    /\ analyzer' = [analyzer EXCEPT !.status = "Ok"]
    /\ pc' = "done"
    /\ result' = "Ok"
    /\ UNCHANGED <<input, pos, ctx, class, method, attributes, steps, decoded>>

----------------------------------------------------------------------------
(* Inputs: class files and method_info structures written out byte by byte *)

MaxClassAttrs == 2     \* attributes in a generated class attribute list

MaxMethodAttrs == 2    \* attributes in a generated method attribute list

MaxTrailing == 1       \* bytes that may follow the class attribute list

U2(n) == <<n \div 256, n % 256>>

U4(n) == <<0, 0>> \o U2(n)

RECURSIVE Concat(_)
Concat(seqs) == IF seqs = <<>> THEN <<>> ELSE Head(seqs) \o Concat(Tail(seqs))

SeqsUpTo(S, n) == UNION {[1..k -> S] : k \in 0..n}

Utf8Info(str) == <<1>> \o U2(Len(str)) \o str

\*  1 "java/lang/Object"   2 Class #1      3 "A"             4 Class #3
\*  5 "<clinit>"           6 "m"           7 "()V"           8 "Code"
\*  9 "Exceptions"        10 "Signature"  11 "SourceFile"   12 "StackMapTable"
\* 13 "LineNumberTable"   14 "Foo"        15 "Deprecated"   16 "I"
\* 17 Integer 7           18 Long 1 (and its phantom slot 19)    20 String #3
StdPoolBytes ==
    U2(21) \o Utf8Info(JavaLangObject) \o <<7>> \o U2(1)
    \o Utf8Info(<<65>>) \o <<7>> \o U2(3)
    \o Utf8Info(CLASS_INITIALIZER_NAME) \o Utf8Info(<<109>>) \o Utf8Info(<<40, 41, 86>>)
    \o Utf8Info(NameCode) \o Utf8Info(NameExceptions) \o Utf8Info(NameSignature)
    \o Utf8Info(NameSourceFile) \o Utf8Info(NameStackMapTable)
    \o Utf8Info(NameLineNumberTable) \o Utf8Info(<<70, 111, 111>>)
    \o Utf8Info(NameDeprecated) \o Utf8Info(<<73>>)
    \o <<3, 0, 0, 0, 7>> \o <<5, 0, 0, 0, 0, 0, 0, 0, 1>> \o <<8>> \o U2(3)

StdPool == ParsingContext_parse(StdPoolBytes, 0).val

\* attribute_info: name index, declared attribute_length, payload
AttrBytes(name_idx, declared, payload) == U2(name_idx) \o U4(declared) \o payload

ExceptionsPayload == U2(1) \o U2(4)

LineNumberTableBytes == AttrBytes(13, 6, U2(1) \o U2(0) \o U2(10))

StackMapTableBytes == AttrBytes(12, 3, U2(1) \o <<3>>)

FooBytes == AttrBytes(14, 2, <<1, 2>>)

CodePayload(code, nested) ==
    U2(1) \o U2(1) \o U4(Len(code)) \o code \o U2(0) \o U2(Len(nested)) \o Concat(nested)

CodeBytes(code, nested) ==
    AttrBytes(8, Len(CodePayload(code, nested)), CodePayload(code, nested))

\* aload_0; return
SomeCode == <<42, 177>>

MethodAttrChoices ==
    { CodeBytes(SomeCode, <<>>),
      CodeBytes(SomeCode, <<LineNumberTableBytes, StackMapTableBytes>>),
      CodeBytes(SomeCode, <<StackMapTableBytes, AttrBytes(12, 2, U2(0))>>),
      CodeBytes(SomeCode, <<FooBytes>>),
      CodeBytes(<<16>>, <<>>),                       \* bipush without its operand
      AttrBytes(8, 0, CodePayload(SomeCode, <<>>)),  \* Code declaring length 0
      AttrBytes(9, 4, ExceptionsPayload),
      AttrBytes(9, 0, ExceptionsPayload),            \* Exceptions declaring length 0
      AttrBytes(10, 2, U2(7)),
      AttrBytes(15, 0, <<>>),
      FooBytes,
      LineNumberTableBytes }

MethodBytes(access, name_idx, descriptor_idx, attrs) ==
    U2(access) \o U2(name_idx) \o U2(descriptor_idx) \o U2(Len(attrs)) \o Concat(attrs)

\* PUBLIC, NATIVE, ABSTRACT, PUBLIC|ABSTRACT, and the undefined bit 0x0200
MethodAccessChoices == {1, 256, 1024, 1025, 512}

BaseMethod == MethodBytes(1, 6, 7, <<CodeBytes(SomeCode, <<LineNumberTableBytes>>)>>)

MethodInputs ==
    { MethodBytes(a, n, d, attrs) :
        a \in MethodAccessChoices, n \in {5, 6}, d \in {7, 16},
        attrs \in SeqsUpTo(MethodAttrChoices, MaxMethodAttrs) }
    \cup { SubSeq(BaseMethod, 1, k) : k \in 0..Len(BaseMethod) }

ClassAttrChoices ==
    { AttrBytes(11, 2, U2(3)),     \* SourceFile "A"
      AttrBytes(11, 2, U2(6)),     \* SourceFile "m"
      AttrBytes(10, 2, U2(7)),     \* Signature
      AttrBytes(15, 0, <<>>),      \* Deprecated
      FooBytes,
      AttrBytes(9, 4, ExceptionsPayload) }

\* PUBLIC|SUPER, MODULE, and the undefined bit 0x0002
ClassAccessChoices == {33, 32768, 2}

MethodListChoices ==
    { <<>>,
      <<BaseMethod, MethodBytes(1025, 6, 7, <<>>),
        MethodBytes(1, 6, 7, <<CodeBytes(SomeCode,
            <<StackMapTableBytes, AttrBytes(12, 2, U2(0))>>)>>)>>,
      <<MethodBytes(1024, 5, 7, <<>>)>> }

ClassFile(magic, access, this, super, methods, attrs, trailing) ==
    magic \o U2(0) \o U2(52) \o StdPoolBytes \o U2(access) \o U2(this) \o U2(super)
    \o U2(0) \o U2(0) \o U2(Len(methods)) \o Concat(methods)
    \o U2(Len(attrs)) \o Concat(attrs) \o trailing

Magic == <<202, 254, 186, 190>>

BaseClass ==
    ClassFile(Magic, 33, 4, 2, <<BaseMethod>>, <<AttrBytes(11, 2, U2(3))>>, <<>>)

ClassInputs ==
    { ClassFile(Magic, a, t, s, ms, attrs, [i \in 1..n |-> 0]) :
        a \in ClassAccessChoices, t \in {2, 4}, s \in {0, 2, 3},
        ms \in MethodListChoices, attrs \in SeqsUpTo(ClassAttrChoices, MaxClassAttrs),
        n \in 0..MaxTrailing }
    \cup { SubSeq(BaseClass, 1, k) : k \in 0..Len(BaseClass) }
    \cup { [BaseClass EXCEPT ![i] = 0] : i \in 1..4 }

----------------------------------------------------------------------------
(* Specifications                                                          *)

MaxPrefix == 4         \* nop instructions that may precede a generated instruction

\* a signed 32-bit operand, big-endian
I4(n) == IF n >= 0 THEN <<0, 0>> \o U2(n) ELSE <<255, 255>> \o U2(65536 + n)

I4s(ns) == Concat([i \in 1..Len(ns) |-> I4(ns[i])])

Nops(k) == [i \in 1..k |-> 0]

\* the padding a compiler writes after a switch opcode at pc: 3 - pc mod 4 bytes
Padding(at, fill) == [i \in 1..(3 - (at % 4)) |-> fill]

\*  1 "A"          2 Class #1           3 "m"              4 "()V"
\*  5 NameAndType #3 #4                 6 Methodref #2 #5  7 InterfaceMethodref #2 #5
\*  8 Integer 7    9 Float 1.0         10 Long 1 (11)     12 Double 1.0 (13)
\* 14 String #1   15 MethodHandle 6 #6 16 MethodType #4   17 Dynamic 0 #22 (an int)
\* 18 InvokeDynamic 0 #5               19 Fieldref #2 #5  20 "J"
\* 21 NameAndType #3 #20               22 NameAndType #3 #23   23 "I"
\* 24 Dynamic 0 #21 (a long)
CodePoolBytes ==
    U2(25) \o Utf8Info(<<65>>) \o <<7>> \o U2(1)
    \o Utf8Info(<<109>>) \o Utf8Info(<<40, 41, 86>>)
    \o <<12>> \o U2(3) \o U2(4) \o <<10>> \o U2(2) \o U2(5) \o <<11>> \o U2(2) \o U2(5)
    \o <<3, 0, 0, 0, 7>> \o <<4, 63, 128, 0, 0>>
    \o <<5, 0, 0, 0, 0, 0, 0, 0, 1>> \o <<6, 63, 240, 0, 0, 0, 0, 0, 0>>
    \o <<8>> \o U2(1) \o <<15, 6>> \o U2(6) \o <<16>> \o U2(4)
    \o <<17>> \o U2(0) \o U2(22) \o <<18>> \o U2(0) \o U2(5) \o <<9>> \o U2(2) \o U2(5)
    \o Utf8Info(<<74>>) \o <<12>> \o U2(3) \o U2(20) \o <<12>> \o U2(3) \o U2(23)
    \o Utf8Info(<<73>>) \o <<17>> \o U2(0) \o U2(21)

CodePool == ParsingContext_parse(CodePoolBytes, 0).val

\* tableswitch operands: default, low, high, jump offsets
TableChoices ==
    { <<20, 0, 1, 12, 16>>, <<8, 5, 4>>, <<-1, 3, 3, -4>>, <<20, 0, 1, 12>>, <<8, 5, 3>> }

\* lookupswitch operands: default, npairs, (match, offset) pairs
LookupChoices ==
    { <<20, 0>>, <<12, 1, 1, 16>>, <<-2, 2, 1, 8, 5, -8>>, <<12, 1, 1>>, <<12, -1>> }

SwitchBytes(k, op, fill, operands, tail) ==
    Nops(k) \o <<op>> \o Padding(k, fill) \o I4s(operands) \o tail

SwitchInputs ==
    { SwitchBytes(k, 170, fill, operands, tail) :
        k \in 0..MaxPrefix, fill \in {0, 7}, operands \in TableChoices,
        tail \in {<<>>, <<177>>} }
    \cup { SwitchBytes(k, 171, fill, operands, tail) :
        k \in 0..MaxPrefix, fill \in {0, 7}, operands \in LookupChoices,
        tail \in {<<>>, <<177>>} }

\* low and high at the ends of i32: (MIN, MAX), (0, MAX), (2, MIN), (-1, MAX - 1)
ExtremeBounds ==
    { <<128, 0, 0, 0, 127, 255, 255, 255>>, <<0, 0, 0, 0, 127, 255, 255, 255>>,
      <<0, 0, 0, 2, 128, 0, 0, 0>>, <<255, 255, 255, 255, 127, 255, 255, 254>> }

\* tableswitch at pc 0 with default +8 and bounds whose count leaves i32
ExtremeSwitchInputs ==
    { <<170, 0, 0, 0>> \o I4(8) \o bounds \o tail :
        bounds \in ExtremeBounds, tail \in {<<>>, <<177>>} }

LdcInputs ==
    { Nops(k) \o <<18, i>> \o <<177>> : k \in 0..1, i \in 0..25 }
    \cup { Nops(k) \o <<op>> \o U2(i) \o <<177>> : k \in 0..1, op \in {19, 20}, i \in 0..25 }
    \cup { <<18>>, <<19, 0>>, <<20, 0>> }

InvokeInputs ==
    { Nops(k) \o <<186>> \o U2(i) \o <<z1, z2>> \o <<177>> :
        k \in 0..1, i \in {0, 6, 15, 18}, z1 \in {0, 1}, z2 \in {0, 1} }
    \cup { Nops(k) \o <<185>> \o U2(i) \o <<count, zero>> \o <<177>> :
        k \in 0..1, i \in {0, 6, 7, 19}, count \in {0, 1}, zero \in {0, 1, 255} }
    \cup { <<186, 0, 15, 0>>, <<185, 0, 7, 1>>, <<185, 0, 7>> }

\* nop; tableswitch at pc 1, padding, default +20, low 0, high 1, offsets +12, +16
TableSwitchAtOne(padding) == <<0, 170>> \o padding \o I4s(<<20, 0, 1, 12, 16>>)

TableSwitchAtOneInputs ==
    { TableSwitchAtOne(padding) : padding \in {<<0, 0>>, <<7, 7>>, <<0, 0, 0>>, <<7, 7, 7>>} }

\* the bytes that follow a generated first byte
OperandChoices ==
    { <<>>, <<1>>, <<255>>, <<0, 1>>, <<0, 2>>, <<255, 255>>, <<0, 2, 1>>, <<0, 0, 0, 8>> }

\* every first byte, each choice of following bytes, then the end of the
\* code or a return
OpcodeInputs ==
    { <<op>> \o operands \o tail :
        op \in 0..255, operands \in OperandChoices, tail \in {<<>>, <<177>>} }

CodeInputs ==
    SwitchInputs \cup LdcInputs \cup InvokeInputs \cup TableSwitchAtOneInputs
    \cup OpcodeInputs \cup ExtremeSwitchInputs

MaxBody == 3           \* instructions generated before a method's final return

\* a signed 16-bit operand, big-endian
I2(n) == IF n >= 0 THEN U2(n) ELSE U2(65536 + n)

\* nop, iconst_0, iload_0, istore_0, iinc 0 1, ifeq +4, goto_w -1, goto_w -3
BodyChunks ==
    { <<0>>, <<3>>, <<26>>, <<59>>, <<132, 0, 1>>, <<153>> \o I2(4),
      <<200>> \o I4(-1), <<200>> \o I4(-3) }

\* a static method whose only local is its one parameter; no handlers
PlainMethod == [max_locals |-> 1, exception_table |-> <<>>]

GeneratedMethods ==
    { [code |-> Concat(body) \o <<177>>, method |-> PlainMethod] :
        body \in SeqsUpTo(BodyChunks, MaxBody) }

\* iload_0; ifeq +6; iinc 0 1; return: the two paths join at pc 7
DiamondCode == <<26>> \o <<153>> \o I2(6) \o <<132, 0, 1>> \o <<177>>

\* iload_0; tableswitch (default +26, 0..1 -> +23, +26); iinc 0 1; return
SwitchCode ==
    <<26, 170, 0, 0>> \o I4s(<<26, 0, 1, 23, 26>>) \o <<132, 0, 1>> \o <<177>>

\* nop; goto_w -1; return: a loop that leaves its frame as it was
IdleLoopCode == <<0>> \o <<200>> \o I4(-1) \o <<177>>

\* iinc 0 1; goto_w -3; return: a loop that redefines the local live at its head
RedefiningLoopCode == <<132, 0, 1>> \o <<200>> \o I4(-3) \o <<177>>

\* iload_1; return, in a method whose only local is slot 0
BadSlotCode == <<27, 177>>

\* goto_w +6; iinc 0 1; return: the target is inside the iinc
MidInstructionCode == <<200>> \o I4(6) \o <<132, 0, 1>> \o <<177>>

\* goto +6; nop; nop; iinc 0 1; return, with the 16-bit goto (0xa7): the
\* target is inside the iinc, one byte past its opcode
GotoCode == <<167>> \o I2(6) \o <<0, 0>> \o <<132, 0, 1>> \o <<177>>

\* return; ifeq +100; return: a branch out of the code that pc 0 never reaches
DeadBranchCode == <<177>> \o <<153>> \o I2(100) \o <<177>>

\* iload_0; tableswitch (default +100, 0..0 -> +19); return; the default arm leaves the code
SwitchOutCode == <<26, 170, 0, 0>> \o I4s(<<100, 0, 0, 19>>) \o <<177>>

\* iconst_0; pop; return; pop; return, with pcs 0..1 covered by a handler at pc 3
HandlerCode == <<3, 87, 177, 87, 177>>

HandlerMethod ==
    [max_locals |-> 1,
     exception_table |-> <<[start_pc |-> 0, end_pc |-> 2, handler_pc |-> 3,
                            catch_type |-> None]>>]

MaxLoopBody == 2       \* chunks in the body of a generated loop

\* nop; iload_0 pop; iinc 0 1; iconst_0 istore_0
LoopChunks == { <<0>>, <<26, 87>>, <<132, 0, 1>>, <<3, 59>> }

\* body; goto_w back to pc 0; return
LoopCode(body) == Concat(body) \o <<200>> \o I4(0 - Len(Concat(body))) \o <<177>>

\* the loops whose body leaves the frame at its head as it was
IdleLoops ==
    { LoopCode(body) : body \in SeqsUpTo({<<0>>, <<26, 87>>}, MaxLoopBody) \ {<<>>} }

\* the loops whose body redefines the local that is live at its head
RedefiningLoops ==
    { LoopCode(body) :
        body \in { b \in SeqsUpTo(LoopChunks, MaxLoopBody) :
                     \E i \in 1..Len(b) : b[i] \in {<<132, 0, 1>>, <<3, 59>>} } }

AnalyzerInputs ==
    GeneratedMethods
    \cup { [code |-> c, method |-> PlainMethod] :
             c \in {DiamondCode, SwitchCode, MidInstructionCode, GotoCode, DeadBranchCode,
                    SwitchOutCode, HandlerCode, IdleLoopCode, RedefiningLoopCode,
                    BadSlotCode} }
    \cup { [code |-> HandlerCode, method |-> HandlerMethod] }

FixpointInputs ==
    { [code |-> c, method |-> PlainMethod] :
        c \in IdleLoops \cup RedefiningLoops
              \cup {DiamondCode, SwitchCode, MidInstructionCode, DeadBranchCode,
                     SwitchOutCode, HandlerCode, BadSlotCode} }
    \cup { [code |-> HandlerCode, method |-> HandlerMethod] }

Init ==
    /\ input \in ClassInputs
    /\ pos = 0
    /\ pc = "magic"
    /\ result = "Running"
    /\ ctx = <<>>
    /\ class = ClassInit("ClassParser::parse")
    /\ method = None
    /\ attributes = <<>>
    /\ steps = <<>>
    /\ decoded = <<>>
    /\ analyzer = AnalyzerIdle

Next ==
    \/ ReadMagic
    \/ ReadVersion
    \/ ReadConstantPool
    \/ ReadAccessFlags
    \/ ReadThisClass
    \/ ReadSuperClass
    \/ ReadInterfaces
    \/ ReadFields
    \/ ReadMethodsCount
    \/ ReadMethod
    \/ AssembleMethod
    \/ ReadAttributes
    \/ CheckEof
    \/ ProjectAttributes

Spec == Init /\ [][Next]_vars

\* Method::parse called on its own, with the standard pool as context
InitMethod ==
    /\ input \in MethodInputs
    /\ pos = 0
    /\ pc = "method"
    /\ result = "Running"
    /\ ctx = StdPool
    /\ class = ClassInit("Method::parse")
    /\ method = None
    /\ attributes = <<>>
    /\ steps = <<>>
    /\ decoded = <<>>
    /\ analyzer = AnalyzerIdle

NextMethod ==
    \/ ReadMethod
    \/ AssembleMethod

SpecMethod == InitMethod /\ [][NextMethod]_vars

\* Instruction::parse_code called on a code array, with the pool CodePool
InitCode ==
    /\ input \in CodeInputs
    /\ pos = 0
    /\ pc = "parse_code"
    /\ result = "Running"
    /\ ctx = CodePool
    /\ \E checks \in BOOLEAN :
           class = [ClassInit("Instruction::parse_code") EXCEPT !.overflow_checks = checks]
    /\ method = None
    /\ attributes = <<>>
    /\ steps = <<>>
    /\ decoded = <<>>
    /\ analyzer = AnalyzerIdle

NextCode == ParseInstruction

SpecCode == InitCode /\ [][NextCode]_vars

\* Class::from_reader has decoded the method; StackFrameAnalyzer::moka_ir
\* analyzes the instructions the decoder produced for its code array
InitAnalyzer ==
    /\ \E i \in AnalyzerInputs : input = i.code /\ method = i.method
    /\ pos = 0
    /\ pc = "parse_code"
    /\ result = "Running"
    /\ ctx = CodePool
    /\ class = ClassInit("StackFrameAnalyzer::moka_ir")
    /\ attributes = <<>>
    /\ steps = <<>>
    /\ decoded = <<>>
    /\ analyzer = AnalyzerIdle

NextAnalyzer ==
    \/ ParseInstruction
    \/ SeedAnalyzer
    \/ ProcessFrame
    \/ FinishAnalysis

SpecAnalyzer == InitAnalyzer /\ [][NextAnalyzer]_vars

\* the same run observed up to renaming of identifiers, which makes a
\* worklist loop that never empties a cycle of finitely many states; every
\* turn of the loop and the return are taken as soon as they are possible
InitFixpoint ==
    /\ \E i \in FixpointInputs : input = i.code /\ method = i.method
    /\ pos = 0
    /\ pc = "parse_code"
    /\ result = "Running"
    /\ ctx = CodePool
    /\ class = ClassInit("StackFrameAnalyzer::moka_ir (fixpoint)")
    /\ attributes = <<>>
    /\ steps = <<>>
    /\ decoded = <<>>
    /\ analyzer = AnalyzerIdle

NextFixpoint ==
    \/ ParseInstruction
    \/ SeedAnalyzer
    \/ ProcessFrameRenamed
    \/ FinishAnalysis

SpecFixpoint ==
    /\ InitFixpoint /\ [][NextFixpoint]_vars
    /\ WF_vars(SeedAnalyzer) /\ WF_vars(ProcessFrameRenamed) /\ WF_vars(FinishAnalysis)

----------------------------------------------------------------------------
(* The parsers of stack-map frames and of annotations, each applied to      *)
(* generated bytes                                                          *)

KindChoices == {0, 1, 2, 3, 4, 255}

ArgumentChoices == {0, 1, 255}

\* a (kind, argument_index) pair, whole or cut short, or followed by a byte
TypePathInputs ==
    {<<>>} \cup { <<kind>> : kind \in KindChoices }
    \cup { <<kind, argument_index>> \o tail :
             kind \in KindChoices, argument_index \in ArgumentChoices,
             tail \in {<<>>, <<0>>} }

\* nothing; Integer; offset_delta 5 and Integer; Object #2; offset_delta 5
\* with no locals and no stack; Uninitialized 9; an unknown tag
FrameTails ==
    { <<>>, <<1>>, <<0, 5, 1>>, <<7, 0, 2>>, <<0, 5, 0, 0, 0, 0>>, <<8, 0, 9>>, <<9>> }

\* every frame_type before each tail
StackMapInputs == { <<frame_type>> \o tail : frame_type \in 0..255, tail \in FrameTails }

\* B C I S Z D F J s e c @ [ and two bytes that are no tag
TagChoices == PrimitiveTags \cup {115, 101, 99, 64, 91} \cup {88, 0}

\* what follows a tag: nothing, half an index, the indices of the Integer,
\* Float, Long, Double, String and Utf8 entries, two Utf8 indices, an
\* annotation without pairs and with one pair, an array of one and of two
\* elements
ValueChoices ==
    { <<>>, <<0>>, U2(8), U2(9), U2(10), U2(12), U2(14), U2(1), U2(20), U2(4),
      U2(20) \o U2(1), U2(20) \o U2(0),
      U2(20) \o U2(1) \o U2(1) \o <<73>> \o U2(8),
      U2(1) \o <<73>> \o U2(8),
      U2(2) \o <<73>> \o U2(8) \o <<115>> \o U2(1),
      U2(0) \o U2(1) \o <<73>> \o U2(8) }

ElementValueInputs ==
    { <<tag>> \o value \o tail :
        tag \in TagChoices, value \in ValueChoices, tail \in {<<>>, <<0, 20, 0, 1>>} }

\* (start_pc, length) of a localvar table entry
LocalVarRanges ==
    { <<0, 0>>, <<1, 2>>, <<65535, 0>>, <<0, 65535>>, <<65535, 1>>, <<32768, 32768>>,
      <<65535, 65535>> }

LocalVarEntry(range, index) == U2(range[1]) \o U2(range[2]) \o U2(index)

\* target_type and target_info
TargetChoices ==
    { <<0, 1>>, <<16>> \o U2(1), <<17, 0, 1>>, <<19>>, <<22, 0>>, <<23>> \o U2(0),
      <<66>> \o U2(0), <<67>> \o U2(4), <<71>> \o U2(4) \o <<0>>, <<76>>, <<255>>,
      <<64>> \o U2(0), <<64>> \o U2(1) \o <<0, 1>> }
    \cup { <<target_type>> \o U2(1) \o LocalVarEntry(range, 0) :
             target_type \in {64, 65}, range \in LocalVarRanges }
    \cup { <<64>> \o U2(2) \o LocalVarEntry(<<1, 2>>, 0) \o LocalVarEntry(range, 1) :
             range \in LocalVarRanges }

\* path_length and the type path
PathChoices == { <<0>>, <<1, 3, 1>>, <<1, 0, 1>>, <<2, 0, 0, 1, 0>> }

\* type_index and the element-value pairs
PairChoices ==
    { U2(20) \o U2(0), U2(1) \o U2(0), U2(20) \o U2(1) \o U2(1) \o <<73>> \o U2(8),
      U2(20) }

TypeAnnotationInputs ==
    { target \o path \o pairs :
        target \in TargetChoices, path \in PathChoices, pairs \in PairChoices }

\* the parsers and the inputs each is applied to
AnnotationEntries ==
    { [entry |-> "TypePathElement::parse", inputs |-> TypePathInputs],
      [entry |-> "attributes::TypePathElement::parse", inputs |-> TypePathInputs],
      [entry |-> "StackMapFrame::parse", inputs |-> StackMapInputs],
      [entry |-> "TypeAnnotation::parse", inputs |-> TypeAnnotationInputs],
      [entry |-> "ElementValue::parse", inputs |-> ElementValueInputs],
      [entry |-> "attributes::ElementValue::parse", inputs |-> ElementValueInputs] }

\* what a parser entered at the start of `input` returns: the cursor, the
\* error or Ok, and the value, kept as the one element of `decoded`
Parsed_with(r) ==
    /\ pos' = r.pos
    /\ pc' = "done"
    /\ result' = r.err
    /\ decoded' = IF IsOk(r) THEN <<r.val>> ELSE decoded
    /\ steps' = Append(steps, pc)
    /\ UNCHANGED <<input, ctx, class, method, attributes, analyzer>>

ParseTypePathElement ==
    /\ pc = "TypePathElement::parse"
    /\ \E r \in {TypePathElement_parse(input, pos)} : Parsed_with(r)

ParseAttributesTypePathElement ==
    /\ pc = "attributes::TypePathElement::parse"
    /\ \E r \in {attributes_TypePathElement_parse(input, pos)} : Parsed_with(r)

ParseStackMapFrame ==
    /\ pc = "StackMapFrame::parse"
    /\ \E r \in {StackMapFrame_parse(input, pos, ctx)} : Parsed_with(r)

ParseTypeAnnotation ==
    /\ pc = "TypeAnnotation::parse"
    /\ \E r \in {TypeAnnotation_parse(input, pos, ctx)} : Parsed_with(r)

ParseElementValue ==
    /\ pc = "ElementValue::parse"
    /\ \E r \in {ElementValue_parse(input, pos, ctx)} : Parsed_with(r)

ParseAttributesElementValue ==
    /\ pc = "attributes::ElementValue::parse"
    /\ \E r \in {attributes_ElementValue_parse(input, pos, ctx)} : Parsed_with(r)

\* the build of TypeAnnotation::parse has overflow checks or has none
InitAnnotation ==
    /\ \E e \in AnnotationEntries :
           /\ pc = e.entry
           /\ input \in e.inputs
           /\ \E checks \in (IF e.entry = "TypeAnnotation::parse" THEN BOOLEAN ELSE {FALSE}) :
                  class = [ClassInit(e.entry) EXCEPT !.overflow_checks = checks]
    /\ pos = 0
    /\ result = "Running"
    /\ ctx = CodePool
    /\ method = None
    /\ attributes = <<>>
    /\ steps = <<>>
    /\ decoded = <<>>
    /\ analyzer = AnalyzerIdle

NextAnnotation ==
    \/ ParseTypePathElement
    \/ ParseAttributesTypePathElement
    \/ ParseStackMapFrame
    \/ ParseTypeAnnotation
    \/ ParseElementValue
    \/ ParseAttributesElementValue

SpecAnnotation == InitAnnotation /\ [][NextAnnotation]_vars

----------------------------------------------------------------------------
(* Properties                                                              *)

Last(seq) == seq[Len(seq)]

Returned == pc = "done"

\* the step whose outcome ended the run
EndedAt(step) == Returned /\ steps # <<>> /\ Last(steps) = step

Count(attrs, kind) == Cardinality({i \in 1..Len(attrs) : attrs[i].kind = kind})

NativeOrAbstract(m) == IsNative(m.access_flags) \/ IsAbstract(m.access_flags)

\* C1: every class that ClassParser::parse returns has no super_class if and
\* only if it is java/lang/Object or has the MODULE flag.
C1_SuperClassAbsentIff ==
    (Returned /\ result = "Ok" /\ class.entry = "ClassParser::parse")
        => (~class.super_class.some
              <=> (class.this_class.v.binary_name = JavaLangObject
                   \/ IsModule(class.access_flags)))

\* C2: a method other than <clinit> that Method::parse returns is native or
\* abstract if and only if its body is None, and its body is the Code
\* attribute of its attribute list; a native or abstract one with a Code
\* attribute, and any other one without, is never returned, and is refused
\* as MalformedClassFile when its attribute list is otherwise legal.
C2_BodyIffNotNativeOrAbstract ==
    (EndedAt("method_assemble") /\ class.entry = "Method::parse"
     /\ method.v.name # CLASS_INITIALIZER_NAME)
        => LET hasCode == Count(attributes, "Code") > 0
               legal == IsOk(project("method_info", MethodSlots, attributes, 1, pos)) IN
           /\ result = "Ok" =>
                 /\ NativeOrAbstract(method.v) <=> ~method.v.body.some
                 /\ method.v.body.some <=> hasCode
           /\ (NativeOrAbstract(method.v) <=> hasCode) =>
                 /\ result # "Ok"
                 /\ legal => result = "MalformedClassFile"

C2_Witness ==
    /\ EndedAt("method_assemble") /\ class.entry = "Method::parse"
    /\ result = "Ok"
    /\ method.v.name # CLASS_INITIALIZER_NAME
    /\ IsAbstract(method.v.access_flags)
    /\ ~method.v.body.some

\* C3 as stated: an ABSTRACT method named <clinit> with no Code attribute
\* (and an otherwise legal attribute list) is returned by Method::parse.
C3_AbstractClinitAccepted ==
    (EndedAt("method_assemble") /\ class.entry = "Method::parse"
     /\ method.v.name = CLASS_INITIALIZER_NAME
     /\ IsAbstract(method.v.access_flags)
     /\ Count(attributes, "Code") = 0
     /\ IsOk(project("method_info", MethodSlots, attributes, 1, pos)))
        => result = "Ok"

\* C3 amended: a method named <clinit> needs a Code attribute whatever its
\* flags: an ABSTRACT <clinit> without one is refused as MalformedClassFile
\* when its attribute list is otherwise legal, and one that is returned has
\* a body.
C3_AbstractClinitNeedsCode ==
    (EndedAt("method_assemble") /\ class.entry = "Method::parse"
     /\ method.v.name = CLASS_INITIALIZER_NAME
     /\ IsAbstract(method.v.access_flags))
        => /\ result = "Ok" => method.v.body.some /\ Count(attributes, "Code") = 1
           /\ (Count(attributes, "Code") = 0
               /\ IsOk(project("method_info", MethodSlots, attributes, 1, pos)))
                 => result = "MalformedClassFile"

C3_Witness ==
    /\ EndedAt("method_assemble") /\ class.entry = "Method::parse"
    /\ method.v.name = CLASS_INITIALIZER_NAME
    /\ IsAbstract(method.v.access_flags)
    /\ Count(attributes, "Code") = 0
    /\ result = "MalformedClassFile"

\* C4: when the input has four bytes and they are not CA FE BA BE, the parser
\* returns NotAClassFile having executed the magic step only: it has consumed
\* those four bytes and nothing else.
C4_BadMagicStopsAtMagic ==
    (Len(input) >= 4 /\ SubSeq(input, 1, 4) # <<202, 254, 186, 190>>
     /\ class.entry = "ClassParser::parse")
        => /\ pos <= 4
           /\ steps \in {<<>>, <<"magic">>}
           /\ ctx = <<>>
           /\ Returned => result = "NotAClassFile" /\ pos = 4

C4_Witness ==
    /\ Len(input) >= 4 /\ SubSeq(input, 1, 4) # <<202, 254, 186, 190>>
    /\ Returned /\ result = "NotAClassFile" /\ steps = <<"magic">>

\* C5 as stated: the two-byte input CA FE makes the parser return
\* NotAClassFile.
C5_TwoBytesNotAClassFile ==
    (input = <<202, 254>> /\ Returned) => result = "NotAClassFile"

\* C5 amended: the two-byte input CA FE makes the parser return ReadFail,
\* the failed read of the magic, without comparing anything.
C5_TwoBytesReadFail ==
    (input = <<202, 254>> /\ Returned) => result = "ReadFail" /\ steps = <<"magic">>

C5_Witness ==
    input = <<202, 254>> /\ Returned /\ result = "ReadFail"

\* C6: once the class attribute list has been read, a byte that remains in
\* the input makes the parser return UnexpectedData, and only that does; a
\* Class is returned only with the input consumed to its last byte.
C6_TrailingDataRejected ==
    class.entry = "ClassParser::parse" =>
        /\ (\E i \in 1..Len(steps) : steps[i] = "eof") =>
              /\ result = "UnexpectedData" => EndedAt("eof") /\ pos <= Len(input)
              /\ result # "UnexpectedData" => pos = Len(input)
        /\ result = "UnexpectedData" => EndedAt("eof")
        /\ result = "Ok" => pos = Len(input) /\ steps[Len(steps) - 1] = "eof"

C6_Witness ==
    /\ EndedAt("eof") /\ result = "UnexpectedData"
    /\ pos = Len(input)
    /\ attributes # <<>>

ClassSiteKinds == {"SourceFile", "Signature", "Synthetic", "Deprecated"}

\* C7 as stated: an attribute with a non-standard name never makes decoding
\* fail: a class or method whose attribute list holds Unknown attributes
\* besides attributes legal at the site is decoded successfully.
C7_UnknownAttributeNeverFails ==
    /\ (EndedAt("project") /\ Count(attributes, "Unknown") > 0
        /\ \A i \in 1..Len(attributes) :
              attributes[i].kind \in ClassSiteKinds \cup {"Unknown"})
          => result = "Ok"
    /\ (EndedAt("method_assemble") /\ Count(attributes, "Unknown") > 0
        /\ \A i \in 1..Len(attributes) : attributes[i].kind = "Unknown")
          => result \notin {"UnexpectedAttribute", "UnknownAttribute"}

\* C8: Method::parse never returns a method whose attribute list holds two
\* Code, two Exceptions or two Signature attributes: such a list ends the
\* parse with an error.
C8_MethodDuplicatesRejected ==
    (EndedAt("method_assemble") /\ class.entry = "Method::parse")
        => \A kind \in {"Code", "Exceptions", "Signature"} :
              Count(attributes, kind) >= 2
                  => result \in {"MalformedClassFile", "UnexpectedAttribute"}

C8_Witness ==
    /\ EndedAt("method_assemble") /\ class.entry = "Method::parse"
    /\ Count(attributes, "Signature") = 2
    /\ Count(attributes, "Code") = 0
    /\ IsAbstract(method.v.access_flags)
    /\ method.v.name # CLASS_INITIALIZER_NAME
    /\ result = "MalformedClassFile"

\* C9: ClassParser::parse never returns a class whose attribute list holds
\* two SourceFile or two Signature attributes, nor one with a method whose
\* Code attribute holds two StackMapTable attributes.
C9_ClassAndCodeDuplicatesRejected ==
    (Returned /\ result = "Ok" /\ class.entry = "ClassParser::parse")
        => /\ Count(attributes, "SourceFile") <= 1
           /\ Count(attributes, "Signature") <= 1
           /\ \A i \in 1..Len(class.methods) :
                 class.methods[i].body.some
                     => Count(class.methods[i].body.v.attributes, "StackMapTable") <= 1

LengthPoliced(attr) == attr.declared = <<0, attr.consumed>>

\* C10: every attribute of a method that Method::parse returns, and every
\* attribute nested in its Code attribute, declares as attribute_length the
\* number of bytes its parser consumed.
C10_DeclaredLengthPoliced ==
    (EndedAt("method_assemble") /\ class.entry = "Method::parse" /\ result = "Ok")
        => \A i \in 1..Len(attributes) :
              /\ LengthPoliced(attributes[i])
              /\ attributes[i].kind = "Code"
                    => \A j \in 1..Len(attributes[i].v.attributes) :
                          LengthPoliced(attributes[i].v.attributes[j])

----------------------------------------------------------------------------
(* Properties of the instruction decoder, under SpecCode                   *)

\* the signed 32-bit and unsigned 16-bit values written after offset off of b
S32At(b, off) ==
    (IF b[off + 1] >= 128 THEN b[off + 1] - 256 ELSE b[off + 1]) * 16777216
    + b[off + 2] * 65536 + b[off + 3] * 256 + b[off + 4]

U16At(b, off) == b[off + 1] * 256 + b[off + 2]

\* the pc the cursor stands at: the end of the last instruction pushed
NextPc == IF decoded = <<>> THEN 0 ELSE Last(decoded).next

DecodedPcs == {decoded[i].pc : i \in 1..Len(decoded)}

\* the pcs at which the decoder began an instruction: those of the
\* instructions it pushed and, when it returned an error, the one it failed on
Attempted ==
    DecodedPcs \cup (IF Returned /\ result # "Ok" /\ NextPc < Len(input) THEN {NextPc} ELSE {})

\* the number of 32-bit operands a decoded switch instruction was built from
SwitchWords(d) ==
    IF d.insn.op = 170 THEN 3 + Len(d.insn.args[4]) ELSE 2 + Len(d.insn.args[2])

\* the bytes the decoder consumed between a switch opcode and its operands
SkippedPadding(d) == d.next - d.pc - 1 - 4 * SwitchWords(d)

\* C16: every tableswitch and lookupswitch the decoder pushes, at whatever
\* pc, was decoded by skipping exactly 3 - pc mod 4 bytes after the opcode,
\* so that its default operand is the 32-bit value at an offset of the code
\* array that is a multiple of 4, the cursor counting from the code's start.
C16_SwitchPaddingAligned ==
    \A i \in 1..Len(decoded) :
        decoded[i].insn.op \in {170, 171} =>
            /\ SkippedPadding(decoded[i]) = 3 - (decoded[i].pc % 4)
            /\ (decoded[i].pc + 1 + SkippedPadding(decoded[i])) % 4 = 0
            /\ decoded[i].insn.args[1]
                   = S32At(input, decoded[i].pc + 1 + (3 - (decoded[i].pc % 4)))

C16_Witness ==
    /\ Returned /\ result = "Ok"
    /\ \E i \in 1..Len(decoded) :
           /\ decoded[i].insn.op = 171
           /\ decoded[i].pc = 2
           /\ input[4] = 7
           /\ decoded[i].insn.args = <<-2, <<1, 8, 5, -8>>>>

\* C17 as stated: the tableswitch at pc 1 with default +20, low 0, high 1 and
\* offsets +12, +16 (written with two padding bytes, which align the
\* operands, or with the three the claim counts) decodes to a TableSwitch
\* holding the absolute targets 21, 13 and 17.
C17_TableSwitchAbsoluteTargets ==
    (Returned /\ input \in TableSwitchAtOneInputs)
        => /\ result = "Ok"
           /\ Len(decoded) = 2
           /\ decoded[2].pc = 1
           /\ decoded[2].insn = Insn(170, <<21, 0, 1, <<13, 17>>>>)

\* C17 amended: written with the two padding bytes that bring the cursor to
\* offset 4, that tableswitch decodes to a TableSwitch at pc 1 holding the
\* operands as read, default 20 and jump offsets 12 and 16, relative to the
\* opcode; written with three bytes after the opcode it is not decoded at all.
C17_TableSwitchRelativeOffsets ==
    (Returned /\ input \in TableSwitchAtOneInputs)
        => IF Len(input) = 24
           THEN /\ result = "Ok"
                /\ Len(decoded) = 2
                /\ decoded[2].pc = 1
                /\ decoded[2].insn = Insn(170, <<20, 0, 1, <<12, 16>>>>)
                /\ decoded[2].next = 24
           ELSE result # "Ok" /\ Len(decoded) = 1

C17_Witness ==
    /\ Returned /\ result = "Ok"
    /\ input = TableSwitchAtOne(<<0, 0>>)
    /\ Len(decoded) = 2
    /\ decoded[2].insn.op = 170

\* C18 as stated: for an ldc-family instruction whose index names a loadable
\* constant, ldc and ldc_w are decoded exactly when the constant is neither
\* Long nor Double and fail with MalformedClassFile when it is; ldc2_w is
\* decoded only for a Long, a Double or a dynamically computed constant; and
\* a dynamically computed constant is decoded by all three, ldc2_w included.
C18_LdcFamilyWidth ==
    Returned =>
        \A q \in Attempted :
            LET op == input[q + 1]
                index == IF op = 18 THEN input[q + 2] ELSE U16At(input, q + 1) IN
            (/\ op \in {18, 19, 20}
             /\ q + (IF op = 18 THEN 2 ELSE 3) <= Len(input)
             /\ index \in 1..Len(ctx)
             /\ ctx[index].tag \in LoadableTags)
                => /\ op \in {18, 19} => (q \in DecodedPcs <=> ctx[index].tag \notin {5, 6})
                   /\ (op \in {18, 19} /\ ctx[index].tag \in {5, 6})
                         => result = "MalformedClassFile"
                   /\ (op = 20 /\ q \in DecodedPcs) => ctx[index].tag \in {5, 6, 17}
                   /\ ctx[index].tag = 17 => q \in DecodedPcs

\* C19: every invokedynamic the decoder pushes has both bytes after its pool
\* index zero; and an invokedynamic whose index names a MethodHandle and
\* whose two following bytes are present and not both zero makes decoding
\* fail with MalformedClassFile, no instruction being pushed for it.
C19_InvokeDynamicZeros ==
    /\ \A i \in 1..Len(decoded) :
           decoded[i].insn.op = 186 =>
               input[decoded[i].pc + 4] = 0 /\ input[decoded[i].pc + 5] = 0
    /\ Returned =>
           \A q \in Attempted :
               (/\ input[q + 1] = 186
                /\ q + 5 <= Len(input)
                /\ IsOk(get_method_handle(ctx, U16At(input, q + 1), 0))
                /\ (input[q + 4] # 0 \/ input[q + 5] # 0))
                   => result = "MalformedClassFile" /\ q \notin DecodedPcs

C19_Witness ==
    /\ Returned /\ result = "MalformedClassFile"
    /\ decoded = <<>>
    /\ input = <<186, 0, 15, 1, 0, 177>>

\* C20: every invokeinterface the decoder pushes has a pool index naming an
\* InterfaceMethodref (the Interface variant of MethodReference) and a zero
\* byte after its count; an invokeinterface whose index resolves to the Class
\* variant, or whose count is followed by a nonzero byte, makes decoding
\* fail with MalformedClassFile.
C20_InvokeInterfaceChecked ==
    /\ \A i \in 1..Len(decoded) :
           decoded[i].insn.op = 185 =>
               /\ ctx[U16At(input, decoded[i].pc + 1)].tag = 11
               /\ decoded[i].insn.args[1].variant = "Interface"
               /\ input[decoded[i].pc + 5] = 0
    /\ Returned =>
           \A q \in Attempted :
               (input[q + 1] = 185 /\ q + 5 <= Len(input)
                /\ IsOk(get_method_ref(ctx, U16At(input, q + 1), 0)))
                   => ((get_method_ref(ctx, U16At(input, q + 1), 0).val.variant = "Class"
                        \/ input[q + 5] # 0)
                          => result = "MalformedClassFile" /\ q \notin DecodedPcs)

C20_Witness ==
    /\ Returned /\ result = "MalformedClassFile"
    /\ decoded = <<[pc |-> 0, insn |-> Insn(0, <<>>), next |-> 1]>>
    /\ input = <<0, 185, 0, 6, 1, 0, 177>>

\* the instruction the decoder failed on needs bytes past the end of the
\* code: decoded again with bytes appended to the code, it reads past the
\* code's length
OperandsCutShort ==
    /\ Returned /\ result # "Ok" /\ NextPc < Len(input)
    /\ parse_code_turn(input \o <<0, 0, 0, 0, 0, 0, 0, 0>>, NextPc, ctx).pos > Len(input)

\* C21 as stated: parse_code returns Ok with the instructions decoded so far
\* exactly when the code ends at an opcode boundary, and a code that ends
\* between an opcode and the last of its operands returns MalformedClassFile.
C21_CutShortIsMalformed ==
    Returned =>
        /\ (result = "Ok") <=> (NextPc = Len(input))
        /\ OperandsCutShort => result = "MalformedClassFile"

\* C21 amended: parse_code returns Ok with the instructions decoded so far
\* exactly when the code ends at an opcode boundary, and a code that ends
\* between an opcode and the last of its operands returns ReadFail, the
\* error of the short read; MalformedClassFile is never returned for it.
C21_CutShortIsReadFail ==
    Returned =>
        /\ (result = "Ok") <=> (NextPc = Len(input))
        /\ OperandsCutShort <=> result = "ReadFail"

C21_Witness ==
    /\ OperandsCutShort /\ result = "ReadFail"
    /\ DecodedPcs = {0} /\ NextPc = 1
    /\ input[2] = 170 /\ Len(input) = 20

\* C22 as stated: every instruction pushed carries the opcode that was its
\* first byte; a goto (0xA7) followed by its two offset bytes is decoded; and
\* UnexpectedOpCode is returned only when the first byte of the failed
\* instruction is above 0xC9, or is the wide prefix followed by a byte that
\* wide does not modify.
C22_EveryOpcodeDispatched ==
    /\ \A i \in 1..Len(decoded) : decoded[i].insn.op = input[decoded[i].pc + 1]
    /\ Returned =>
           \A q \in Attempted :
               (input[q + 1] = 167 /\ q + 3 <= Len(input)) => q \in DecodedPcs
    /\ (Returned /\ result = "UnexpectedOpCode") =>
           \/ input[NextPc + 1] > 201
           \/ /\ input[NextPc + 1] = 196
              /\ input[NextPc + 2] \notin WideU16Ops \cup {132}

\* the constant-pool lookup that an opcode naming a class, a field or a
\* method is to be resolved with, at pool index i
Resolved(op, i) ==
    IF op \in FieldOps THEN get_field_ref(ctx, i, 0)
    ELSE IF op \in MethodOps \cup {185} THEN get_method_ref(ctx, i, 0)
    ELSE IF op \in {187, 192, 193} THEN get_class_ref(ctx, i, 0)
    ELSE get_array_type_ref(ctx, i, 0)

\* C23 as stated: every pushed instruction that names a class, a field or a
\* method (get/put field and static, the invokes, new, anewarray, checkcast,
\* instanceof, multianewarray) carries the reference its index resolves to in
\* the constant pool, never the index; so a checkcast or instanceof whose
\* index is not a Class entry is not decoded.
C23_ReferencesResolved ==
    \A i \in 1..Len(decoded) :
        decoded[i].insn.op \in FieldOps \cup MethodOps \cup {185, 187, 189, 192, 193, 197} =>
            /\ IsOk(Resolved(decoded[i].insn.op, U16At(input, decoded[i].pc + 1)))
            /\ decoded[i].insn.args[1]
                   = Resolved(decoded[i].insn.op, U16At(input, decoded[i].pc + 1)).val

\* the two's-complement value of the byte and of the big-endian 16-bit
\* value written after offset off of b
S8At(b, off) == IF b[off + 1] >= 128 THEN b[off + 1] - 256 ELSE b[off + 1]

S16At(b, off) == IF U16At(b, off) >= 32768 THEN U16At(b, off) - 65536 ELSE U16At(b, off)

\* C29 as stated: a pushed bipush holds its operand byte as a signed 8-bit
\* value and a pushed sipush its two operand bytes as a signed big-endian
\* 16-bit value, as the constant of iinc and the 16-bit branch offsets are
\* held.
C29_PushOperandsSigned ==
    \A i \in 1..Len(decoded) :
        /\ decoded[i].insn.op = 16 => decoded[i].insn.args[1] = S8At(input, decoded[i].pc + 1)
        /\ decoded[i].insn.op = 17 => decoded[i].insn.args[1] = S16At(input, decoded[i].pc + 1)
        /\ decoded[i].insn.op = 132 => decoded[i].insn.args[2] = S8At(input, decoded[i].pc + 2)
        /\ decoded[i].insn.op \in I16Ops =>
               decoded[i].insn.args[1] = S16At(input, decoded[i].pc + 1)

\* the steps of ClassParser::parse before the methods, in the order of the code
HeaderSteps ==
    <<"magic", "version", "constant_pool", "access_flags", "this_class",
      "super_class", "interfaces", "fields", "methods_count">>

\* the pairs of steps that may follow one another from methods_count on
LaterSteps ==
    { <<"methods_count", "method">>, <<"methods_count", "attributes">>,
      <<"method", "method_assemble">>, <<"method_assemble", "method">>,
      <<"method_assemble", "attributes">>, <<"attributes", "eof">>,
      <<"eof", "project">> }

\* C25: ClassParser::parse takes its steps in the order magic, minor version,
\* major version, constant pool, access flags, this_class, super_class,
\* interfaces, fields, methods, attributes, end-of-file check; the magic is
\* read from offset 0, the minor version from offset 4 and the major from
\* offset 6; the run ends at the first step that fails, with that step's
\* error, and no step follows it.
C25_StepsInOrder ==
    class.entry = "ClassParser::parse" =>
        /\ \A i \in 1..Len(steps) :
               IF i <= Len(HeaderSteps) THEN steps[i] = HeaderSteps[i]
               ELSE <<steps[i - 1], steps[i]>> \in LaterSteps
        /\ pc \notin {"done", "method_assemble"} =>
               pc = (IF steps = <<>> THEN "magic"
                     ELSE IF Len(steps) < Len(HeaderSteps) THEN HeaderSteps[Len(steps) + 1]
                     ELSE pc)
        /\ pc = "version" => pos = 4
        /\ pc = "constant_pool" => pos = 8
        /\ class.version.some =>
               class.version.v = [minor |-> U16At(input, 4), major |-> U16At(input, 6)]
        /\ (Returned /\ result = "Ok") =>
               /\ Last(steps) = "project"
               /\ pos = Len(input)
               /\ Cardinality({i \in 1..Len(steps) : steps[i] = "method"}) = class.methods_count
        /\ (Returned /\ result # "Ok") =>
               /\ EndedAt("magic") => result \in {"ReadFail", "NotAClassFile"}
               /\ EndedAt("version") => result = "ReadFail"
               /\ EndedAt("methods_count") => result = "ReadFail"
               /\ EndedAt("eof") => result = "UnexpectedData"
               /\ result = "NotAClassFile" => EndedAt("magic")
               /\ result = "UnexpectedData" => EndedAt("eof")
               /\ result = "ReadFail" => pos <= Len(input)

C25_Witness ==
    /\ class.entry = "ClassParser::parse"
    /\ Returned /\ result = "Ok"
    /\ Len(class.methods) = 1
    /\ steps = HeaderSteps \o <<"method", "method_assemble", "attributes", "eof", "project">>

\* the offset of the first 32-bit operand of a switch whose opcode is at pc
SwitchOperands(at) == at + 1 + (3 - (at % 4))

\* C26: every decoded TableSwitch has low <= high and exactly
\* high - low + 1 jump offsets; every decoded LookupSwitch holds exactly
\* npairs >= 0 (match, offset) pairs, in the order of the stream; and a
\* switch written with high < low or npairs < 0 is never decoded.
C26_SwitchCountsExact ==
    \A i \in 1..Len(decoded) :
        LET d == decoded[i]
            npairs == S32At(input, SwitchOperands(d.pc) + 4)
        IN  /\ d.insn.op = 170 =>
                  /\ d.insn.args[2] <= d.insn.args[3]
                  /\ Len(d.insn.args[4]) >= 1
                  /\ d.insn.args[2] + (Len(d.insn.args[4]) - 1) = d.insn.args[3]
            /\ d.insn.op = 171 =>
                  /\ npairs >= 0
                  /\ Len(d.insn.args[2]) = 2 * npairs
                  /\ \A k \in 1..Len(d.insn.args[2]) :
                         d.insn.args[2][k]
                             = S32At(input, SwitchOperands(d.pc) + 8 + 4 * (k - 1))

----------------------------------------------------------------------------
(* Properties of the stack-map and annotation parsers, under SpecAnnotation *)

\* a run of the parser `entry` has returned
ReturnedFrom(entry) == Returned /\ class.entry = entry

\* C24: TypePathElement::parse, in jvm/parsing and in elements/attributes,
\* accepts the pair (kind, argument_index) if and only if kind is 0, 1 or 2
\* and argument_index is 0, or kind is 3; every other pair fails with
\* InvalidTypePathKind.
C24_TypePathAcceptedIff ==
    (/\ Returned
     /\ class.entry \in {"TypePathElement::parse", "attributes::TypePathElement::parse"}
     /\ Len(input) >= 2)
        => IF (input[1] \in 0..2 /\ input[2] = 0) \/ input[1] = 3
           THEN /\ result = "Ok"
                /\ decoded = <<[kind |-> input[1], argument_index |-> input[2]]>>
           ELSE result = "InvalidTypePathKind"

\* the frame types that encode an offset_delta together with frame_type's
SameKind(frame_type) ==
    IF frame_type \in 0..63 THEN 0..63
    ELSE IF frame_type \in 64..127 THEN 64..127
    ELSE {frame_type}

\* C27: a decoded StackMapFrame holds its offset_delta, frame_type for 0..63,
\* frame_type - 64 for 64..127 and the u16 read for 247..255; the same bytes
\* after another frame_type of the same kind decode to another frame; the
\* frame types 128..246 fail with UnknownStackMapFrameType.
C27_FrameDeterminesOffsetDelta ==
    (ReturnedFrom("StackMapFrame::parse") /\ Len(input) >= 1) =>
        /\ input[1] \in 128..246 => result = "UnknownStackMapFrameType"
        /\ result = "Ok" =>
              /\ "offset_delta" \in DOMAIN decoded[1]
              /\ decoded[1].offset_delta
                     = (IF input[1] \in 0..63 THEN input[1]
                        ELSE IF input[1] \in 64..127 THEN input[1] - 64
                        ELSE U16At(input, 1))
              /\ \A other \in SameKind(input[1]) \ {input[1]} :
                     StackMapFrame_parse([input EXCEPT ![1] = other], 0, ctx).val
                         # decoded[1]

\* C28: the effective range decoded for each entry of a localvar target
\* (target_type 0x40 or 0x41) is start_pc .. start_pc + length, the sum taken
\* without wrapping, and no start_pc and length make the parser fail on the
\* sum.
C28_EffectiveRangeExact ==
    (ReturnedFrom("TypeAnnotation::parse") /\ input[1] \in {64, 65}) =>
        /\ result # "Panic"
        /\ result = "Ok" =>
              \A k \in 1..Len(decoded[1].target_info.table) :
                  decoded[1].target_info.table[k].effective_range
                      = <<U16At(input, 3 + 6 * (k - 1)),
                          U16At(input, 3 + 6 * (k - 1)) + U16At(input, 5 + 6 * (k - 1))>>

\* the u16 at offset off of b, 0 where b has ended
U16Within(b, off) == IF off + 2 <= Len(b) THEN U16At(b, off) ELSE 0

RECURSIVE ElementValueEnd(_, _)
RECURSIVE ElementValuesEnd(_, _, _)
RECURSIVE ElementValuePairsEnd(_, _, _)

\* JVMS 4.7.16.1: the offset after n element_value structures that start at p
ElementValuesEnd(b, p, n) ==
    IF n = 0 \/ p >= Len(b) THEN p
    ELSE ElementValuesEnd(b, ElementValueEnd(b, p), n - 1)

\* the offset after n element_value_pairs (a name index and a value each)
ElementValuePairsEnd(b, p, n) ==
    IF n = 0 \/ p >= Len(b) THEN p
    ELSE ElementValuePairsEnd(b, ElementValueEnd(b, p + 2), n - 1)

\* the offset after the element_value that starts at offset p
ElementValueEnd(b, p) ==
    IF p >= Len(b) THEN p
    ELSE IF b[p + 1] \in PrimitiveTags \cup {115, 99} THEN p + 3
    ELSE IF b[p + 1] = 101 THEN p + 5
    ELSE IF b[p + 1] = 64 THEN ElementValuePairsEnd(b, p + 5, U16Within(b, p + 3))
    ELSE IF b[p + 1] = 91 THEN ElementValuesEnd(b, p + 3, U16Within(b, p + 1))
    ELSE p + 1

\* C30: ElementValue::parse, in elements/attributes and in jvm/parsing, when
\* it returns a value has consumed the bytes of the JVMS element_value: 3 for
\* B C I S Z D F J s c, 5 for e, the tag and the annotation for @, the tag,
\* the count and the elements for [; a primitive tag whose index names a
\* constant of another kind fails; a byte that is no tag fails with
\* InvalidElementValueTag, only that byte having been read.
C30_ElementValueLayout ==
    (/\ Returned
     /\ class.entry \in {"ElementValue::parse", "attributes::ElementValue::parse"}
     /\ Len(input) >= 1)
        => /\ result = "Ok" => pos = ElementValueEnd(input, 0)
           /\ (/\ input[1] \in PrimitiveTags
               /\ Len(input) >= 3
               /\ IsOk(get_constant_value(ctx, U16At(input, 1), 3))
               /\ get_constant_value(ctx, U16At(input, 1), 3).val.tag # ConstantKind(input[1]))
                  => result \notin {"Ok", "Running"}
           /\ input[1] \notin PrimitiveTags \cup {115, 101, 99, 64, 91}
                  => result = "InvalidElementValueTag" /\ pos = 1

----------------------------------------------------------------------------
(* Properties of the stack-frame analyzer, under SpecAnalyzer and          *)
(* SpecFixpoint                                                            *)

\* the pcs that follow pc q: fallthrough, branch targets, switch arms and
\* the handlers covering q
SuccessorPcs(code, m, q) ==
    (Range(NormalSuccessors(InsnAt(code, q)))
     \cup {h.handler_pc : h \in Range(Covering(m, q))}) \cap Pcs(code)

RECURSIVE ReachableFrom(_, _, _)
ReachableFrom(code, m, S) ==
    IF UNION {SuccessorPcs(code, m, q) : q \in S} \subseteq S THEN S
    ELSE ReachableFrom(code, m, S \cup UNION {SuccessorPcs(code, m, q) : q \in S})

\* the pcs that have an entry in the IR map
IrKeys == {q \in DOMAIN analyzer.ir : analyzer.ir[q].some}

Analyzed == Returned /\ result = "Ok" /\ analyzer.status = "Ok"

ForwardOnly ==
    /\ \A i \in 1..Len(decoded) :
           \A t \in Range(BranchTargets(decoded[i])) : t > decoded[i].pc
    /\ \A h \in Range(method.exception_table) : h.handler_pc >= h.end_pc

C13_StackHeightsAgree ==
    analyzer.status # "Idle" =>
        /\ (\E q \in DOMAIN analyzer.arrived : Cardinality(analyzer.arrived[q]) > 1)
              => /\ analyzer.status = "InconsistentStackHeight"
                 /\ Returned /\ result = "InconsistentStackHeight"
        /\ analyzer.status \in {"Running", "Ok"} =>
              \A q \in DOMAIN analyzer.frames :
                  analyzer.arrived[q] =
                      IF analyzer.frames[q].some THEN {Len(analyzer.frames[q].v.stack)}
                      ELSE {}
        /\ analyzer.status \notin {"Running", "Ok"} => result # "Ok" /\ IrKeys = {}

C13_Witness ==
    /\ Returned /\ result = "InconsistentStackHeight"
    /\ \E q \in DOMAIN analyzer.arrived : analyzer.arrived[q] = {0, 1}

\* the slots of a merge that received a value held by neither side
PhiSlots(xs, ys, zs) == {i \in 1..Len(xs) : xs[i] # ys[i]}

\* one sequence of slots of a merge g: kept where both sides agree, else an
\* identifier not seen before the merge
SlotsMerged(xs, ys, zs, seen) ==
    /\ Len(zs) = Len(xs)
    /\ \A i \in 1..Len(xs) :
           IF xs[i] = ys[i] THEN zs[i] = xs[i] ELSE zs[i] \notin seen

\* C14: in every merge into a pc with a recorded frame, each stack and local
\* slot keeps its identifier when both sides hold the same one and otherwise
\* receives an identifier that no frame or IR record of the method held
\* before, distinct slots receiving distinct ones; and the pc is appended to
\* the worklist exactly when the merged frame differs from the recorded one.
C14_MergeKeepsOrAllocatesPhi ==
    analyzer.status # "Idle" =>
        \A k \in 1..Len(analyzer.merges) :
            /\ SlotsMerged(analyzer.merges[k].recorded.stack, analyzer.merges[k].incoming.stack,
                           analyzer.merges[k].merged.stack, analyzer.merges[k].seen)
            /\ SlotsMerged(analyzer.merges[k].recorded.locals, analyzer.merges[k].incoming.locals,
                           analyzer.merges[k].merged.locals, analyzer.merges[k].seen)
            /\ \A i \in PhiSlots(analyzer.merges[k].recorded.stack,
                                  analyzer.merges[k].incoming.stack, <<>>) :
                   /\ \A j \in 1..Len(analyzer.merges[k].merged.locals) :
                          analyzer.merges[k].merged.locals[j] # analyzer.merges[k].merged.stack[i]
                   /\ \A j \in 1..Len(analyzer.merges[k].merged.stack) :
                          j # i => analyzer.merges[k].merged.stack[j]
                                      # analyzer.merges[k].merged.stack[i]
            /\ analyzer.merges[k].queue_after =
                   IF analyzer.merges[k].merged # analyzer.merges[k].recorded
                   THEN Append(analyzer.merges[k].queue_before, analyzer.merges[k].pc)
                   ELSE analyzer.merges[k].queue_before

C14_Witness ==
    /\ analyzer.status = "Running"
    /\ \E k \in 1..Len(analyzer.merges) :
           /\ analyzer.merges[k].recorded.stack # analyzer.merges[k].incoming.stack
           /\ analyzer.merges[k].recorded.locals = analyzer.merges[k].incoming.locals
           /\ analyzer.merges[k].merged.locals = analyzer.merges[k].recorded.locals
           /\ analyzer.merges[k].merged # analyzer.merges[k].recorded
           /\ Last(analyzer.worklist) = analyzer.merges[k].pc

\* every branch of the decoded method goes to the pc of a decoded instruction
BranchesValid ==
    \A i \in 1..Len(decoded) :
        \A t \in Range(BranchTargets(decoded[i])) : t \in Pcs(decoded)

\* C15 as stated: a method that is decoded and analyzed successfully has no
\* branch whose absolute target is outside the code or off the instruction
\* boundaries; a decoded method that has one is not analyzed successfully;
\* and the forward goto +6 landing inside an instruction is rejected with
\* InvalidJumpTarget.
C15_InvalidJumpTargetRejected ==
    Returned =>
        /\ result = "Ok" => BranchesValid
        /\ (analyzer.status # "Idle" /\ ~BranchesValid) => result # "Ok"
        /\ input = GotoCode => result = "InvalidJumpTarget"

====
